---- MODULE Spec2Model ----
(***************************************************************************)
(* Three-way merge of book documents (BrowserCollaborationService) of the  *)
(* AbsoluteScenes mobile companion.                                        *)
(*                                                                         *)
(* JSON values are modelled as tagged pairs <<tag, payload>>:              *)
(*   <<"undefined", <<>>>>   the JavaScript value undefined (absent key)   *)
(*   <<"null", <<>>>>        null                                          *)
(*   <<"string", s>>         a string (content strings are one character)  *)
(*   <<"array", items>>      an array, items a sequence of values          *)
(*   <<"object", props>>     an object, props a sequence of <<key, value>> *)
(*                           pairs in insertion order                      *)
(* A conflict `type` string is modelled as the sequence of the tokens it   *)
(* is concatenated from, e.g. `chapters_c1.title` is                       *)
(* <<"chapters", "_", "c1", ".", "title">>.                                *)
(***************************************************************************)
EXTENDS Integers, Sequences, FiniteSets, TLC

VARIABLES baseContent, remoteContent, localContent, mergeResult, pc,
          commits, fileShaCache, repository, bookData, retryCount,
          remoteBookData, calls, syncResult, thisConflicts, writes, faults,
          chosenResolutions, app

mergeVars == <<baseContent, remoteContent, localContent, mergeResult>>
syncVars == <<commits, fileShaCache, repository, bookData, retryCount,
              remoteBookData, calls, syncResult, thisConflicts, writes, faults,
              chosenResolutions>>
vars == <<mergeVars, pc, syncVars, app>>

(***************************************************************************)
(* Bounds of the model.                                                    *)
(***************************************************************************)
NumStr == 3      \* number of distinct content strings
NumIds == 2      \* number of distinct item identifiers
MaxLen == 2      \* longest identity collection / scalar set drawn as input
MaxWrites == 2   \* commits another client makes to the repository during a sync
MaxFaults == 1   \* store calls that fail (network, authorisation) during a sync

(***************************************************************************)
(* JavaScript values.                                                      *)
(***************************************************************************)
Undefined == <<"undefined", <<>>>>
Null == <<"null", <<>>>>
Str(s) == <<"string", s>>
Arr(items) == <<"array", items>>
Obj(props) == <<"object", props>>
EmptyObj == Obj(<<>>)
EmptyArr == Arr(<<>>)

\* the sequence a function on 1..n denotes, with its elements computed once
Tuple(f) == f \o <<>>

IsArray(v) == v[1] = "array"
IsObj(v) == v[1] = "object"
\* typeof v === 'object' && v !== null
IsNonNullObject(v) == v[1] \in {"array", "object"}
\* JavaScript truthiness (of the values modelled)
Truthy(v) == IsNonNullObject(v) \/ (v[1] = "string" /\ v[2] # "")
\* a || b
OrElse(a, b) == IF Truthy(a) THEN a ELSE b

\* x === y. Primitives compare by value. Objects and arrays compare by
\* reference: the three snapshots are separately parsed documents, so no
\* object met in one of them is the object met in another.
StrictEquals(x, y) == ~IsNonNullObject(x) /\ ~IsNonNullObject(y) /\ x = y

\* Object.keys(v)
Keys(v) ==
  IF IsObj(v) THEN Tuple([i \in 1..Len(v[2]) |-> v[2][i][1]])
  ELSE IF IsArray(v) THEN Tuple([i \in 1..Len(v[2]) |-> ToString(i - 1)])
  ELSE IF v[1] = "string" /\ v[2] # "" THEN <<"0">>
  ELSE <<>>

HasKey(v, key) ==
  LET keys == Keys(v) IN \E i \in 1..Len(keys) : keys[i] = key

\* v[key] (undefined when absent)
Get(v, key) ==
  IF IsObj(v) THEN
    IF HasKey(v, key)
    THEN v[2][CHOOSE i \in 1..Len(v[2]) : v[2][i][1] = key][2]
    ELSE Undefined
  ELSE IF IsArray(v) THEN
    IF HasKey(v, key)
    THEN v[2][CHOOSE i \in 1..Len(v[2]) : ToString(i - 1) = key]
    ELSE Undefined
  ELSE IF v[1] = "string" /\ key = "0" /\ v[2] # "" THEN v
  ELSE Undefined

\* obj[key] = val on an object: in place when the key exists, appended otherwise
SetProp(obj, key, val) ==
  IF HasKey(obj, key)
  THEN Obj(Tuple([i \in 1..Len(obj[2]) |->
                    IF obj[2][i][1] = key THEN <<key, val>> ELSE obj[2][i]]))
  ELSE Obj(Append(obj[2], <<key, val>>))

\* { ...v }
Spread(v) ==
  IF IsObj(v) THEN v
  ELSE LET keys == Keys(v)
       IN Obj(Tuple([i \in 1..Len(keys) |-> <<keys[i], Get(v, keys[i])>>]))

\* JSON.parse(JSON.stringify(v)): keys holding undefined are dropped, undefined
\* array elements become null, key order is kept.
RECURSIVE JSONClone(_)
JSONClone(v) ==
  IF IsObj(v) THEN
    LET kept == SelectSeq(v[2], LAMBDA p : p[2] # Undefined)
    IN Obj(Tuple([i \in 1..Len(kept) |-> <<kept[i][1], JSONClone(kept[i][2])>>]))
  ELSE IF IsArray(v) THEN
    Arr(Tuple([i \in 1..Len(v[2]) |->
                 IF v[2][i] = Undefined THEN Null ELSE JSONClone(v[2][i])]))
  ELSE v

\* JSON.stringify(v): undefined for undefined, otherwise the text, which is
\* determined by (and determines) the round-tripped value with its key order.
JSONstringify(v) == IF v = Undefined THEN Undefined ELSE <<"json", JSONClone(v)>>

\* [...new Set(seq)]: the first occurrence of every element, in order
Uniq(seq) ==
  LET indexed == Tuple([i \in 1..Len(seq) |-> <<i, seq[i]>>])
      firsts == SelectSeq(indexed,
                          LAMBDA p : \A j \in 1..(p[1] - 1) : seq[j] # p[2])
  IN Tuple([i \in 1..Len(firsts) |-> firsts[i][2]])

(***************************************************************************)
(* Loops. A `for` loop whose iterations assign different keys of one       *)
(* object is the object with all the assignments made; a loop whose        *)
(* iterations push to one array is the concatenation of what they push.    *)
(***************************************************************************)
\* obj[keys[1]] = values[1]; ...; obj[keys[n]] = values[n] for different
\* keys: a key the object has keeps its place, the others are appended in
\* the order of their assignment
AssignAll(obj, keys, values) ==
  LET old == obj[2]
      at(key) == CHOOSE j \in 1..Len(keys) : keys[j] = key
      assigned(key) == \E j \in 1..Len(keys) : keys[j] = key
      kept == Tuple([i \in 1..Len(old) |->
                       IF assigned(old[i][1])
                       THEN <<old[i][1], values[at(old[i][1])]>>
                       ELSE old[i]])
      positions == Tuple([j \in 1..Len(keys) |-> j])
      fresh == SelectSeq(positions, LAMBDA j : ~HasKey(obj, keys[j]))
      added == Tuple([i \in 1..Len(fresh) |->
                        <<keys[fresh[i]], values[fresh[i]]>>])
  IN Obj(kept \o added)

\* { ...target, ...source }
Assign(target, source) ==
  LET keys == Keys(source)
  IN AssignAll(target, keys,
               Tuple([i \in 1..Len(keys) |-> Get(source, keys[i])]))

\* the concatenation of the sequences seqs[lo], ..., seqs[hi]
RECURSIVE FlattenRange(_, _, _)
FlattenRange(seqs, lo, hi) ==
  IF lo > hi THEN <<>>
  ELSE IF lo = hi THEN seqs[lo]
  ELSE LET mid == (lo + hi) \div 2
       IN FlattenRange(seqs, lo, mid) \o FlattenRange(seqs, mid + 1, hi)

Flatten(seqs) == FlattenRange(seqs, 1, Len(seqs))

\* the iterations of a loop that assigns merged[keys[i]] and pushes
\* conflicts: the object with the assignments made, the conflicts pushed
AssignResults(obj, keys, results) ==
  [value |-> AssignAll(obj, keys,
                       Tuple([i \in 1..Len(results) |-> results[i].value])),
   conflicts |-> Flatten(Tuple([i \in 1..Len(results) |->
                                  results[i].conflicts]))]

\* the iterations of a loop that pushes items and conflicts: the array of
\* the items pushed, the conflicts pushed
PushResults(results) ==
  [value |-> Arr(Flatten(Tuple([i \in 1..Len(results) |->
                                  results[i].items]))),
   conflicts |-> Flatten(Tuple([i \in 1..Len(results) |->
                                  results[i].conflicts]))]

(***************************************************************************)
(* mergeSimpleField: the value assigned to merged[fieldName] and the       *)
(* conflicts pushed.                                                       *)
(***************************************************************************)
\* mergeSimpleField with the conflicting case resolved to local's value
mergeSimpleField_PreferLocal(fieldName, base, local, remote) ==
  LET baseValue == Get(base, fieldName)
      localValue == Get(local, fieldName)
      remoteValue == Get(remote, fieldName)
      localStr == JSONstringify(localValue)
      remoteStr == JSONstringify(remoteValue)
      baseStr == JSONstringify(baseValue)
  IN IF localStr = remoteStr THEN [value |-> localValue, conflicts |-> <<>>]
     ELSE IF localStr = baseStr THEN [value |-> remoteValue, conflicts |-> <<>>]
     ELSE IF remoteStr = baseStr THEN [value |-> localValue, conflicts |-> <<>>]
     ELSE [value |-> localValue,
           conflicts |-> <<[type |-> <<fieldName>>,
                            localContent |-> localValue,
                            remoteContent |-> remoteValue,
                            baseContent |-> baseValue]>>]

mergeSimpleField(fieldName, base, local, remote) ==
  LET baseValue == Get(base, fieldName)
      localValue == Get(local, fieldName)
      remoteValue == Get(remote, fieldName)
      localStr == JSONstringify(localValue)
      remoteStr == JSONstringify(remoteValue)
      baseStr == JSONstringify(baseValue)
  IN IF localStr = remoteStr THEN [value |-> localValue, conflicts |-> <<>>]
     ELSE IF localStr = baseStr THEN [value |-> remoteValue, conflicts |-> <<>>]
     ELSE IF remoteStr = baseStr THEN [value |-> localValue, conflicts |-> <<>>]
     ELSE [value |-> remoteValue,
           conflicts |-> <<[type |-> <<fieldName>>,
                            localContent |-> localValue,
                            remoteContent |-> remoteValue,
                            baseContent |-> baseValue]>>]

(***************************************************************************)
(* Helpers of the identity-collection merge.                               *)
(***************************************************************************)
\* array.map(item => item.id)
IdsOf(items) == Tuple([i \in 1..Len(items) |-> Get(items[i], "id")])

\* array.find(item => item.id === id), undefined when there is none
Find(items, id) ==
  IF \E i \in 1..Len(items) : StrictEquals(Get(items[i], "id"), id)
  THEN items[CHOOSE i \in 1..Len(items) :
               /\ StrictEquals(Get(items[i], "id"), id)
               /\ \A j \in 1..(i - 1) : ~StrictEquals(Get(items[j], "id"), id)]
  ELSE Undefined

\* array.filter(item => item && item.id)
SafeItems(items) ==
  SelectSeq(items, LAMBDA item : Truthy(item) /\ Truthy(Get(item, "id")))

\* `${v}` for an identifier
IdTokens(v) == IF v[1] = "string" THEN <<v[2]>> ELSE <<v[1]>>

\* array[0]?.id
FirstId(arrayValue) ==
  IF Len(arrayValue[2]) > 0 THEN Get(arrayValue[2][1], "id") ELSE Undefined

\* the test both compareObjectsThreeWay and mergeItemFields use to recognise
\* a nested identity collection
IsArrayWithIds(localValue, remoteValue) ==
  /\ IsArray(localValue)
  /\ IsArray(remoteValue)
  /\ (Len(localValue[2]) > 0 \/ Len(remoteValue[2]) > 0)
  /\ (Truthy(FirstId(localValue)) \/ Truthy(FirstId(remoteValue)))

(***************************************************************************)
(* compareObjectsThreeWay: the conflicts it returns.                       *)
(***************************************************************************)
RECURSIVE compareObjectsThreeWay(_, _, _, _)
RECURSIVE compareKey(_, _, _, _, _)
RECURSIVE compareId(_, _, _, _, _)

\* one iteration of `for (const id of allIds)`
compareId(id, safeBase, safeLocal, safeRemote, prefix) ==
  LET baseItem == Find(safeBase, id)
      localItem == Find(safeLocal, id)
      remoteItem == Find(safeRemote, id)
  IN IF Truthy(localItem) /\ Truthy(remoteItem)
     THEN compareObjectsThreeWay(OrElse(baseItem, EmptyObj), localItem,
                                 remoteItem, prefix \o <<".">> \o IdTokens(id))
     ELSE <<>>

\* one iteration of `for (const key of allKeys)`
compareKey(key, baseObj, localObj, remoteObj, prefix) ==
  LET baseValue == Get(baseObj, key)
      localValue == Get(localObj, key)
      remoteValue == Get(remoteObj, key)
  IN IF IsArrayWithIds(localValue, remoteValue) THEN
       LET baseArray == IF IsArray(baseValue) THEN baseValue[2] ELSE <<>>
           safeBase == SafeItems(baseArray)
           safeLocal == SafeItems(localValue[2])
           safeRemote == SafeItems(remoteValue[2])
           allIds == Uniq(IdsOf(safeBase) \o IdsOf(safeLocal)
                          \o IdsOf(safeRemote))
       IN Flatten(Tuple([i \in 1..Len(allIds) |->
                           compareId(allIds[i], safeBase, safeLocal, safeRemote,
                                     prefix \o <<".", key>>)]))
     ELSE IF IsNonNullObject(localValue) /\ IsNonNullObject(remoteValue) THEN
       compareObjectsThreeWay(OrElse(baseValue, EmptyObj), localValue,
                              remoteValue, prefix \o <<".", key>>)
     ELSE IF /\ ~StrictEquals(localValue, remoteValue)
             /\ ~StrictEquals(localValue, baseValue)
             /\ ~StrictEquals(remoteValue, baseValue) THEN
       <<[type |-> prefix \o <<".", key>>,
          localContent |-> localValue,
          remoteContent |-> remoteValue,
          baseContent |-> baseValue]>>
     ELSE <<>>

compareObjectsThreeWay(baseObj, localObj, remoteObj, prefix) ==
  LET allKeys == Uniq(Keys(baseObj) \o Keys(localObj) \o Keys(remoteObj))
  IN Flatten(Tuple([i \in 1..Len(allKeys) |->
                      compareKey(allKeys[i], baseObj, localObj, remoteObj,
                                 prefix)]))

(***************************************************************************)
(* mergeNestedArrayWithIds                                                 *)
(***************************************************************************)
\* the value a key of a nested item both sides changed is merged to
mergeNestedItemField(key, baseItem, localItem, remoteItem) ==
  LET baseVal == Get(baseItem, key)
      localVal == Get(localItem, key)
      remoteVal == Get(remoteItem, key)
  IN IF JSONstringify(localVal) = JSONstringify(remoteVal) THEN localVal
     ELSE IF JSONstringify(localVal) = JSONstringify(baseVal) THEN remoteVal
     ELSE IF JSONstringify(remoteVal) = JSONstringify(baseVal) THEN localVal
     ELSE remoteVal

\* one iteration of `for (const id of allIds)`: what is pushed to the result
mergeNestedItem(id, safeBase, safeLocal, safeRemote) ==
  LET baseItem == Find(SelectSeq(safeBase, Truthy), id)
      localItem == Find(SelectSeq(safeLocal, Truthy), id)
      remoteItem == Find(SelectSeq(safeRemote, Truthy), id)
  IN IF Truthy(localItem) /\ Truthy(remoteItem) THEN
       IF JSONstringify(localItem) = JSONstringify(remoteItem) THEN
         <<Spread(localItem)>>
       ELSE IF /\ Truthy(baseItem)
               /\ JSONstringify(localItem) = JSONstringify(baseItem) THEN
         <<Spread(remoteItem)>>
       ELSE IF /\ Truthy(baseItem)
               /\ JSONstringify(remoteItem) = JSONstringify(baseItem) THEN
         <<Spread(localItem)>>
       ELSE
         LET mergedItem == Assign(Assign(Spread(baseItem), remoteItem), localItem)
             keys == Keys(Assign(Assign(Spread(baseItem), localItem), remoteItem))
         IN <<AssignAll(mergedItem, keys,
                        Tuple([i \in 1..Len(keys) |->
                                 mergeNestedItemField(keys[i], baseItem,
                                                      localItem, remoteItem)]))>>
     ELSE IF Truthy(localItem) THEN <<Spread(localItem)>>
     ELSE IF Truthy(remoteItem) THEN <<Spread(remoteItem)>>
     ELSE <<>>

mergeNestedArrayWithIds(baseArray, localArray, remoteArray) ==
  LET safeBase == IF IsArray(baseArray) THEN baseArray[2] ELSE <<>>
      safeLocal == IF IsArray(localArray) THEN localArray[2] ELSE <<>>
      safeRemote == IF IsArray(remoteArray) THEN remoteArray[2] ELSE <<>>
      allIds == Uniq(IdsOf(SafeItems(safeBase)) \o IdsOf(SafeItems(safeLocal))
                     \o IdsOf(SafeItems(safeRemote)))
  IN Arr(Flatten(Tuple([i \in 1..Len(allIds) |->
                          mergeNestedItem(allIds[i], safeBase, safeLocal,
                                          safeRemote)])))

(***************************************************************************)
(* mergeItemFields                                                         *)
(***************************************************************************)
\* one iteration of `for (const key of allKeys)`: the value of merged[key]
mergeItemField(key, baseItem, localItem, remoteItem) ==
  LET baseValue == Get(baseItem, key)
      localValue == Get(localItem, key)
      remoteValue == Get(remoteItem, key)
  IN IF IsArrayWithIds(localValue, remoteValue) THEN
       mergeNestedArrayWithIds(
         IF IsArray(baseValue) THEN baseValue ELSE EmptyArr,
         localValue, remoteValue)
     ELSE IF JSONstringify(localValue) = JSONstringify(remoteValue)
     THEN localValue
     ELSE IF JSONstringify(localValue) = JSONstringify(baseValue)
     THEN remoteValue
     ELSE IF JSONstringify(remoteValue) = JSONstringify(baseValue)
     THEN localValue
     ELSE remoteValue

mergeItemFields(baseItem, localItem, remoteItem) ==
  LET allKeys == Uniq(Keys(baseItem) \o Keys(localItem) \o Keys(remoteItem))
  IN AssignAll(Spread(baseItem), allKeys,
               Tuple([i \in 1..Len(allKeys) |->
                        mergeItemField(allKeys[i], baseItem, localItem,
                                       remoteItem)]))

(***************************************************************************)
(* mergeArrayWithIds: the value assigned to merged[fieldName] and the      *)
(* conflicts pushed.                                                       *)
(***************************************************************************)
\* the branch of an item both local and remote hold
mergePresentItem(fieldName, id, baseItem, localItem, remoteItem) ==
  IF JSONstringify(localItem) = JSONstringify(remoteItem) THEN
    [items |-> <<Spread(localItem)>>, conflicts |-> <<>>]
  ELSE IF /\ Truthy(baseItem)
          /\ JSONstringify(localItem) = JSONstringify(baseItem) THEN
    [items |-> <<Spread(remoteItem)>>, conflicts |-> <<>>]
  ELSE IF /\ Truthy(baseItem)
          /\ JSONstringify(remoteItem) = JSONstringify(baseItem) THEN
    [items |-> <<Spread(localItem)>>, conflicts |-> <<>>]
  ELSE
    [items |-> <<mergeItemFields(OrElse(baseItem, EmptyObj), localItem,
                                 remoteItem)>>,
     conflicts |-> compareObjectsThreeWay(
                     OrElse(baseItem, EmptyObj), localItem, remoteItem,
                     <<fieldName, "_">> \o IdTokens(id))]

\* mergeArrayItem with a deletion by one side taken silently: the item the
\* other side still holds is dropped and nothing is reported
mergeArrayItem_SilentDelete(fieldName, id, baseArray, localArray, remoteArray) ==
  LET baseItem == Find(baseArray, id)
      localItem == Find(localArray, id)
      remoteItem == Find(remoteArray, id)
  IN IF Truthy(localItem) /\ Truthy(remoteItem) THEN
       mergePresentItem(fieldName, id, baseItem, localItem, remoteItem)
     ELSE IF Truthy(localItem) /\ ~Truthy(remoteItem) THEN
       IF Truthy(baseItem) THEN [items |-> <<>>, conflicts |-> <<>>]
       ELSE [items |-> <<Spread(localItem)>>, conflicts |-> <<>>]
     ELSE IF Truthy(remoteItem) /\ ~Truthy(localItem) THEN
       IF Truthy(baseItem) THEN [items |-> <<>>, conflicts |-> <<>>]
       ELSE [items |-> <<Spread(remoteItem)>>, conflicts |-> <<>>]
     ELSE [items |-> <<>>, conflicts |-> <<>>]

\* one iteration of `for (const id of allIds)`: what is pushed to
\* merged[fieldName] and to conflicts
mergeArrayItem(fieldName, id, baseArray, localArray, remoteArray) ==
  LET baseItem == Find(baseArray, id)
      localItem == Find(localArray, id)
      remoteItem == Find(remoteArray, id)
  IN IF Truthy(localItem) /\ Truthy(remoteItem) THEN
       mergePresentItem(fieldName, id, baseItem, localItem, remoteItem)
     ELSE IF Truthy(localItem) /\ ~Truthy(remoteItem) THEN
       IF Truthy(baseItem) THEN
         [items |-> <<Spread(localItem)>>,
          conflicts |-> <<[type |-> <<fieldName, "_deleted">>,
                           id |-> id,
                           localContent |-> localItem,
                           remoteContent |-> Null,
                           baseContent |-> baseItem]>>]
       ELSE [items |-> <<Spread(localItem)>>, conflicts |-> <<>>]
     ELSE IF Truthy(remoteItem) /\ ~Truthy(localItem) THEN
       IF Truthy(baseItem) THEN
         [items |-> <<Spread(remoteItem)>>,
          conflicts |-> <<[type |-> <<fieldName, "_deleted">>,
                           id |-> id,
                           localContent |-> Null,
                           remoteContent |-> remoteItem,
                           baseContent |-> baseItem]>>]
       ELSE [items |-> <<Spread(remoteItem)>>, conflicts |-> <<>>]
     ELSE [items |-> <<>>, conflicts |-> <<>>]

\* the loop over the identifiers
mergeArrayItems(fieldName, ids, baseArray, localArray, remoteArray) ==
  PushResults(Tuple([i \in 1..Len(ids) |->
                       mergeArrayItem(fieldName, ids[i], baseArray, localArray,
                                      remoteArray)]))

\* mergeArrayWithIds iterating over the concatenated identifiers instead of
\* their set
mergeArrayWithIds_NoSet(fieldName, base, local, remote) ==
  LET baseArray == OrElse(Get(base, fieldName), EmptyArr)[2]
      localArray == OrElse(Get(local, fieldName), EmptyArr)[2]
      remoteArray == OrElse(Get(remote, fieldName), EmptyArr)[2]
      allIds == IdsOf(baseArray) \o IdsOf(localArray) \o IdsOf(remoteArray)
  IN mergeArrayItems(fieldName, allIds, baseArray, localArray, remoteArray)

mergeArrayWithIds(fieldName, base, local, remote) ==
  LET baseArray == OrElse(Get(base, fieldName), EmptyArr)[2]
      localArray == OrElse(Get(local, fieldName), EmptyArr)[2]
      remoteArray == OrElse(Get(remote, fieldName), EmptyArr)[2]
      allIds == Uniq(IdsOf(baseArray) \o IdsOf(localArray) \o IdsOf(remoteArray))
  IN mergeArrayItems(fieldName, allIds, baseArray, localArray, remoteArray)

(***************************************************************************)
(* mergeSimpleArray: the value assigned to merged[fieldName] and the       *)
(* conflicts pushed.                                                       *)
(***************************************************************************)
\* set.has(x) / array.includes(x); the elements are primitives
Includes(seq, x) == \E i \in 1..Len(seq) : StrictEquals(seq[i], x)

mergeSimpleArray(fieldName, base, local, remote) ==
  LET baseArray == OrElse(Get(base, fieldName), EmptyArr)[2]
      localArray == OrElse(Get(local, fieldName), EmptyArr)[2]
      remoteArray == OrElse(Get(remote, fieldName), EmptyArr)[2]
      localAdded == SelectSeq(localArray, LAMBDA item : ~Includes(baseArray, item))
      remoteAdded == SelectSeq(remoteArray, LAMBDA item : ~Includes(baseArray, item))
      localRemoved == SelectSeq(baseArray, LAMBDA item : ~Includes(localArray, item))
      remoteRemoved == SelectSeq(baseArray, LAMBDA item : ~Includes(remoteArray, item))
      added == Uniq(baseArray \o localAdded \o remoteAdded)
      afterLocal ==
        SelectSeq(added, LAMBDA item :
          ~(Includes(localRemoved, item) /\ ~Includes(remoteAdded, item)))
      mergedSet ==
        SelectSeq(afterLocal, LAMBDA item :
          ~(Includes(remoteRemoved, item) /\ ~Includes(localAdded, item)))
      fromLocal == SelectSeq(localAdded, LAMBDA item : Includes(remoteRemoved, item))
      fromRemote == SelectSeq(remoteAdded, LAMBDA item : Includes(localRemoved, item))
      contradictions ==
        Tuple([i \in 1..Len(fromLocal) |->
                 [item |-> fromLocal[i], localAction |-> "added",
                  remoteAction |-> "removed"]])
        \o Tuple([i \in 1..Len(fromRemote) |->
                    [item |-> fromRemote[i], localAction |-> "removed",
                     remoteAction |-> "added"]])
  IN [value |-> Arr(mergedSet),
      conflicts |->
        IF Len(contradictions) > 0
        THEN <<[type |-> <<fieldName, "_array">>,
                contradictions |-> contradictions]>>
        ELSE <<>>]

(***************************************************************************)
(* mergeObjectFields and mergeObject                                       *)
(***************************************************************************)
RECURSIVE mergeObjectFields(_, _, _)
RECURSIVE mergeObjectField(_, _, _, _)

\* one iteration of `for (const key of allKeys)` of mergeObjectFields: the
\* value of merged[key]
mergeObjectField(key, baseObj, localObj, remoteObj) ==
  LET baseValue == Get(baseObj, key)
      localValue == Get(localObj, key)
      remoteValue == Get(remoteObj, key)
  IN IF IsNonNullObject(localValue) /\ IsNonNullObject(remoteValue) THEN
       mergeObjectFields(OrElse(baseValue, EmptyObj), localValue, remoteValue)
     ELSE IF StrictEquals(localValue, remoteValue) THEN localValue
     ELSE IF StrictEquals(localValue, baseValue) THEN remoteValue
     ELSE IF StrictEquals(remoteValue, baseValue) THEN localValue
     ELSE remoteValue

mergeObjectFields(baseObj, localObj, remoteObj) ==
  LET allKeys == Uniq(Keys(baseObj) \o Keys(localObj) \o Keys(remoteObj))
  IN AssignAll(Spread(baseObj), allKeys,
               Tuple([i \in 1..Len(allKeys) |->
                        mergeObjectField(allKeys[i], baseObj, localObj,
                                         remoteObj)]))

\* one iteration of `for (const key of allKeys)` of mergeObject: the value
\* stored in merged[fieldName][key] and the conflicts pushed
mergeObjectKey(fieldName, key, baseObj, localObj, remoteObj) ==
  LET baseValue == Get(baseObj, key)
      localValue == Get(localObj, key)
      remoteValue == Get(remoteObj, key)
      plain(v) == [value |-> v, conflicts |-> <<>>]
  IN IF IsNonNullObject(localValue) /\ IsNonNullObject(remoteValue) THEN
       [value |-> mergeObjectFields(OrElse(baseValue, EmptyObj), localValue,
                                    remoteValue),
        conflicts |-> compareObjectsThreeWay(OrElse(baseValue, EmptyObj),
                                             localValue, remoteValue,
                                             <<fieldName, ".", key>>)]
     ELSE IF StrictEquals(localValue, remoteValue) THEN plain(localValue)
     ELSE IF StrictEquals(localValue, baseValue) THEN plain(remoteValue)
     ELSE IF StrictEquals(remoteValue, baseValue) THEN plain(localValue)
     ELSE [value |-> remoteValue,
           conflicts |-> <<[type |-> <<fieldName, ".", key>>,
                            localContent |-> localValue,
                            remoteContent |-> remoteValue,
                            baseContent |-> baseValue]>>]

\* the value assigned to merged[fieldName] and the conflicts pushed
mergeObject(fieldName, base, local, remote) ==
  LET baseObj == OrElse(Get(base, fieldName), EmptyObj)
      localObj == OrElse(Get(local, fieldName), EmptyObj)
      remoteObj == OrElse(Get(remote, fieldName), EmptyObj)
      allKeys == Uniq(Keys(baseObj) \o Keys(localObj) \o Keys(remoteObj))
  IN AssignResults(JSONClone(baseObj), allKeys,
                   Tuple([i \in 1..Len(allKeys) |->
                            mergeObjectKey(fieldName, allKeys[i], baseObj,
                                           localObj, remoteObj)]))

(***************************************************************************)
(* mergeRemainingFields: the fields it merges, with the value assigned to  *)
(* each and the conflicts pushed for each.                                 *)
(***************************************************************************)
handledFields ==
  {"title", "author", "scenes", "characters", "chapters", "parts",
   "locations", "backgroundFolders", "frontMatter",
   "characterDetectionBlacklist", "template", "github", "metadata",
   "collaboration"}

mergeRemainingFields(base, local, remote) ==
  LET allKeys == Uniq(Keys(base) \o Keys(local) \o Keys(remote))
      remaining == SelectSeq(allKeys, LAMBDA key : key \notin handledFields)
  IN [fields |-> remaining,
      results |-> Tuple([i \in 1..Len(remaining) |->
                           mergeSimpleField(remaining[i], base, local, remote)])]

(***************************************************************************)
(* mergeContent                                                            *)
(***************************************************************************)
\* the fields mergeContent merges by name, in the order it merges them
knownFields ==
  <<"title", "author", "scenes", "characters", "chapters", "parts",
    "locations", "backgroundFolders", "frontMatter",
    "characterDetectionBlacklist", "template", "github", "metadata",
    "collaboration">>

\* return { content: merged, hasConflicts: conflicts.length > 0, conflicts }
mergeReturn(merged) ==
  [content |-> merged.value,
   hasConflicts |-> Len(merged.conflicts) > 0,
   conflicts |-> merged.conflicts]

mergeContent(base, remote, local) ==
  LET rest == mergeRemainingFields(base, local, remote)
  IN mergeReturn(
       AssignResults(
         JSONClone(base), knownFields \o rest.fields,
         <<mergeSimpleField("title", base, local, remote),
           mergeSimpleField("author", base, local, remote),
           mergeArrayWithIds("scenes", base, local, remote),
           mergeArrayWithIds("characters", base, local, remote),
           mergeArrayWithIds("chapters", base, local, remote),
           mergeArrayWithIds("parts", base, local, remote),
           mergeArrayWithIds("locations", base, local, remote),
           mergeArrayWithIds("backgroundFolders", base, local, remote),
           mergeArrayWithIds("frontMatter", base, local, remote),
           mergeSimpleArray("characterDetectionBlacklist", base, local, remote),
           mergeObject("template", base, local, remote),
           mergeObject("github", base, local, remote),
           mergeObject("metadata", base, local, remote),
           mergeObject("collaboration", base, local, remote)>>
         \o rest.results))

(***************************************************************************)
(* Sync-marker fields of a document (github.lastSyncCommitSha and          *)
(* github.lastSyncedContent), which the sync coordinator deletes from all  *)
(* three snapshots before it compares them.                                *)
(***************************************************************************)
DeleteProp(obj, key) == Obj(SelectSeq(obj[2], LAMBDA p : p[1] # key))

\* the same code with the sync markers left in the three documents
StripSyncMarkers_Keep(doc) == doc

StripSyncMarkers(doc) ==
  IF IsObj(Get(doc, "github"))
  THEN SetProp(doc, "github",
               DeleteProp(DeleteProp(Get(doc, "github"), "lastSyncedContent"),
                          "lastSyncCommitSha"))
  ELSE doc

(***************************************************************************)
(* Input documents. Every family is a set of documents; one merge takes    *)
(* its base, remote and local snapshot from the same family.               *)
(***************************************************************************)
StrName == <<"A", "B", "C", "D", "E", "F">>
Strings == {Str(StrName[i]) : i \in 1..NumStr}
IdName == <<"c1", "c2", "c3", "c4">>
Ids == {Str(IdName[i]) : i \in 1..NumIds}

\* an object without the keys whose value is undefined
MakeObj(props) == Obj(SelectSeq(props, LAMBDA p : p[2] # Undefined))

\* { ...doc, ...props }, a property given as undefined being left out
RECURSIVE WithProps(_, _)
WithProps(doc, props) ==
  IF props = <<>> THEN doc
  ELSE LET p == props[Len(props)]
           rest == WithProps(doc, SubSeq(props, 1, Len(props) - 1))
       IN IF p[2] = Undefined THEN DeleteProp(rest, p[1])
          ELSE SetProp(rest, p[1], p[2])

\* the book the sync tests build
createBook(overrides) ==
  WithProps(
    Obj(<<<<"title", Str("A")>>, <<"author", Str("A")>>,
          <<"chapters", EmptyArr>>, <<"characters", EmptyArr>>,
          <<"locations", EmptyArr>>, <<"parts", EmptyArr>>,
          <<"backgroundFolders", EmptyArr>>, <<"frontMatter", EmptyArr>>,
          <<"characterDetectionBlacklist", EmptyArr>>,
          <<"template", EmptyObj>>, <<"github", EmptyObj>>,
          <<"metadata", EmptyObj>>, <<"collaboration", EmptyObj>>>>),
    overrides)

\* a book that has every field mergeContent knows: the tests' book with the
\* top-level `scenes` collection
bookWithScenes(overrides) == createBook(<<<<"scenes", EmptyArr>>>> \o overrides)

ScalarValues == Strings \cup {Undefined, Null}

\* title and author vary
TitleDocs ==
  {bookWithScenes(<<<<"title", t>>, <<"author", a>>>>) :
     t \in ScalarValues, a \in {Str("A"), Str("B")}}

\* a field outside the known-field set varies
ExtraDocs ==
  {bookWithScenes(<<<<"subtitle", s>>>>) :
     s \in ScalarValues \cup {Arr(<<Str("A")>>)}}

\* identity-bearing items: only the first identifier's item has two versions
Item(id, title) == Obj(<<<<"id", id>>, <<"title", title>>>>)
ItemVersions(id) ==
  IF id = Str(IdName[1]) THEN {Item(id, Str("A")), Item(id, Str("B"))}
  ELSE {Item(id, Str("A"))}

\* the lists of at most MaxLen items with pairwise different identifiers
RECURSIVE ItemLists(_)
ItemLists(n) ==
  IF n = 0 THEN {<<>>}
  ELSE LET shorter == ItemLists(n - 1)
       IN shorter \cup
          {Append(l, it) :
             l \in {x \in shorter : Len(x) = n - 1},
             it \in UNION {ItemVersions(id) : id \in Ids}}

UniqueIdLists ==
  {l \in ItemLists(MaxLen) :
     \A i, j \in 1..Len(l) : i # j => Get(l[i], "id") # Get(l[j], "id")}

\* the chapters vary in their membership, order and one item's content
ListDocs == {bookWithScenes(<<<<"chapters", Arr(l)>>>>) : l \in UniqueIdLists}

\* one chapter whose fields vary
FieldDocs ==
  {bookWithScenes(<<<<"chapters",
                  Arr(<<MakeObj(<<<<"id", Str("c1")>>, <<"title", t>>,
                                  <<"notes", n>>>>)>>)>>>>) :
     t \in Strings, n \in {Undefined, Str("A"), Str("B")}}

Scene(id, content) == Obj(<<<<"id", Str(id)>>, <<"content", Str(content)>>>>)

\* the top-level scenes vary: one scene that is absent or has one of the
\* content strings
SceneDocs ==
  {bookWithScenes(<<<<"scenes", Arr(l)>>>>) :
     l \in {<<>>} \cup {<<Scene("s1", StrName[i])>> : i \in 1..NumStr}}

\* one chapter whose nested scenes vary
SceneLists ==
  {<<>>, <<Scene("s1", "A")>>, <<Scene("s1", "B")>>, <<Scene("s1", "C")>>,
   <<Scene("s2", "A")>>,
   <<Scene("s1", "A"), Scene("s2", "A")>>,
   <<Scene("s2", "A"), Scene("s1", "A")>>}
NestedDocs ==
  {bookWithScenes(<<<<"chapters",
                  Arr(<<Obj(<<<<"id", Str("c1")>>, <<"title", t>>,
                              <<"scenes", Arr(sc)>>>>)>>)>>>>) :
     t \in {Str("A"), Str("B")}, sc \in SceneLists}

\* the scalar set varies
SetDocs ==
  {bookWithScenes(<<<<"characterDetectionBlacklist", l>>>>) :
     l \in {Undefined, EmptyArr, Arr(<<Str("x")>>), Arr(<<Str("y")>>),
            Arr(<<Str("x"), Str("y")>>), Arr(<<Str("y"), Str("x")>>)}}

\* a key of the nested record `template` varies over scalars, records and
\* arrays
NestedValues ==
  {Undefined, Null, Str("A"), Str("B"),
   Obj(<<<<"size", Str("A")>>>>), Obj(<<<<"size", Str("B")>>>>),
   Obj(<<<<"size", Str("C")>>>>), Arr(<<Str("A")>>)}
TemplateDocs ==
  {bookWithScenes(<<<<"template", MakeObj(<<<<"fonts", v>>>>)>>>>) :
     v \in NestedValues}

\* the timestamps of the nested record `metadata` vary
MetadataDocs ==
  {bookWithScenes(<<<<"title", t>>,
                <<"metadata", MakeObj(<<<<"modified", m>>>>)>>>>) :
     t \in {Str("A"), Str("B")}, m \in Strings}

\* documents that lack known fields, the tests' book among them
SparseDocs ==
  {createBook(<<>>)} \cup
  {MakeObj(<<<<"title", t>>, <<"chapters", c>>, <<"metadata", m>>>>) :
     t \in {Str("A"), Str("B")},
     c \in {Undefined, EmptyArr, Arr(<<Item(Str("c1"), Str("A"))>>)},
     m \in {Undefined, EmptyObj}}

\* title and chapters vary together
MixedDocs ==
  {bookWithScenes(<<<<"title", t>>, <<"chapters", Arr(l)>>>>) :
     t \in {Str("A"), Str("B")},
     l \in {<<>>, <<Item(Str("c1"), Str("A"))>>, <<Item(Str("c1"), Str("B"))>>,
            <<Item(Str("c1"), Str("A")), Item(Str("c2"), Str("A"))>>}}

\* a collection field holds a list in some snapshots and a string, a record or
\* null in others
MismatchDocs ==
  {bookWithScenes(<<<<"chapters", c>>, <<"characterDetectionBlacklist", b>>>>) :
     c \in {EmptyArr, Arr(<<Item(Str("c1"), Str("A"))>>), Str("A"), Null,
            Obj(<<<<"c1", Str("A")>>>>)},
     b \in {EmptyArr, Arr(<<Str("A")>>), Str("A")}}

NoResult == [content |-> Undefined, hasConflicts |-> FALSE, conflicts |-> <<>>]

(***************************************************************************)
(* The repository and the sync coordinator (BrowserEnhancedGitHubService). *)
(* `commits` is the history of the book file, oldest first: the file is    *)
(* absent while it is empty, commit i carries the marker Sha(i). The blob  *)
(* sha GitHub compares on a write is a hash of the file's content and is   *)
(* modelled by the content. `calls` lists the store calls made, in order.  *)
(* The sha cache of the GitHubService outlives a sync: a sync starts with  *)
(* it empty or holding the sha of the file as the app downloaded it.       *)
(***************************************************************************)
ShaName == <<"sha1", "sha2", "sha3", "sha4", "sha5", "sha6", "sha7", "sha8">>
Sha(i) == Str(ShaName[i])
\* a marker that names no commit of the repository
GoneSha == Str("gone")
BlobSha(doc) == <<"sha", doc>>

\* the same document with its first two keys written in the other order
reordered(doc) ==
  Obj(<<doc[2][2], doc[2][1]>> \o SubSeq(doc[2], 3, Len(doc[2])))

SyncDocs ==
  {bookWithScenes(<<<<"title", t>>>>) : t \in Strings} \cup
  {bookWithScenes(<<<<"chapters", Arr(<<Item(id, Str("A"))>>)>>>>) : id \in Ids} \cup
  {bookWithScenes(<<<<"chapters", Arr(<<Item(Str("c1"), Str("B"))>>)>>>>)} \cup
  {reordered(bookWithScenes(<<>>))}

\* what another client commits while this one syncs
WriterDocs ==
  {bookWithScenes(<<<<"title", Str("B")>>>>),
   bookWithScenes(<<<<"chapters", Arr(<<Item(Str("c2"), Str("A"))>>)>>>>),
   bookWithScenes(<<<<"chapters", Arr(<<Item(Str("c1"), Str("C"))>>)>>>>)}

\* the sync state a local book carries in its github field: nothing, the
\* marker of its last sync, or the content of its last sync (older clients)
SyncStates(history) ==
  {EmptyObj,
   Obj(<<<<"lastSyncCommitSha", GoneSha>>>>),
   Obj(<<<<"lastSyncedContent", bookWithScenes(<<>>)>>>>)} \cup
  {Obj(<<<<"lastSyncCommitSha", Sha(i)>>>>) : i \in 1..Len(history)}

LocalBooks(history) ==
  {SetProp(doc, "github", github) :
     doc \in SyncDocs, github \in SyncStates(history)}

\* the repository object the app holds ({fullName, name}), and the shape the
\* GitHub API returns
Repositories ==
  {Obj(<<<<"fullName", Str("A")>>>>),
   Obj(<<<<"fullName", Str("A")>>, <<"full_name", Str("A")>>>>)}

\* the object a sync returns: the properties it has, and their values
NoReturn ==
  [props |-> {}, success |-> FALSE, conflicts |-> <<>>,
   requiresResolution |-> FALSE, error |-> Undefined,
   mergedContent |-> Undefined, wasPushed |-> FALSE]

\* the state of the App component as useState creates it
useStateDefaults ==
  [isLoading |-> FALSE, isSaving |-> FALSE, currentBook |-> FALSE,
   currentScene |-> FALSE, conflicts |-> FALSE, pendingSaveData |-> FALSE,
   pending |-> <<>>]

\* no sync is running
SyncIdle ==
  /\ commits = <<>>
  /\ fileShaCache = Undefined
  /\ repository = Undefined
  /\ bookData = Undefined
  /\ retryCount = 0
  /\ remoteBookData = Undefined
  /\ calls = <<>>
  /\ syncResult = NoReturn
  /\ thisConflicts = <<>>
  /\ writes = 0
  /\ faults = 0
  /\ chosenResolutions = <<>>

Inputs(docs) ==
  /\ baseContent \in docs
  /\ remoteContent \in docs
  /\ localContent \in docs

Init ==
  /\ \/ Inputs(TitleDocs)
     \/ Inputs(ExtraDocs)
     \/ Inputs(ListDocs)
     \/ Inputs(SceneDocs)
     \/ Inputs(FieldDocs)
     \/ Inputs(NestedDocs)
     \/ Inputs(SetDocs)
     \/ Inputs(TemplateDocs)
     \/ Inputs(MetadataDocs)
     \/ Inputs(SparseDocs)
     \/ Inputs(MixedDocs)
     \/ Inputs(MismatchDocs)
  /\ mergeResult = NoResult
  /\ pc = "start"
  /\ SyncIdle
  /\ app = useStateDefaults

\* one call of mergeContent on the three snapshots
\* the fields mergeArrayWithIds and mergeSimpleArray are called for
collectionFields ==
  <<"scenes", "characters", "chapters", "parts", "locations",
    "backgroundFolders", "frontMatter", "characterDetectionBlacklist">>

\* (doc[fieldName] || []).map and .filter are not functions when the field
\* holds a truthy value that is not an array: the call throws a TypeError,
\* which nothing in mergeContent catches.
notAFunction(doc, fieldName) ==
  Truthy(Get(doc, fieldName)) /\ ~IsArray(Get(doc, fieldName))

mergeThrows(base, remote, local) ==
  \E i \in 1..Len(collectionFields) :
    \/ notAFunction(base, collectionFields[i])
    \/ notAFunction(local, collectionFields[i])
    \/ notAFunction(remote, collectionFields[i])

\* await mergeContent(base, remote, local): the result, or the rejection
MergeContent ==
  /\ pc = "start"
  /\ IF mergeThrows(baseContent, remoteContent, localContent)
     THEN /\ mergeResult' = NoResult
          /\ pc' = "threw"
     ELSE /\ mergeResult' = mergeContent(baseContent, remoteContent, localContent)
          /\ pc' = "merged"
  /\ UNCHANGED <<baseContent, remoteContent, localContent, syncVars, app>>

Next == MergeContent

Spec == Init /\ [][Next]_vars

(***************************************************************************)
(* The store (GitHubService). A call that fails does so for a reason the   *)
(* coordinator cannot influence (network, authorisation, rate limit).      *)
(***************************************************************************)
\* whether the next store call may fail
Failures == IF faults < MaxFaults THEN BOOLEAN ELSE {FALSE}

\* checkRepositoryForBookFile: the name of the book file; null when the
\* repository has none, and null as well when the request fails
checkRepositoryForBookFile(failed) ==
  IF failed \/ commits = <<>> THEN Null ELSE Str("manuscript.book")

\* getFileAtCommit(repo, fileName, commitSha): the request is addressed to
\* repo.full_name; a 404 and every failure give null
getFileAtCommit(repo, commitSha, failed) ==
  IF failed \/ ~Truthy(Get(repo, "full_name")) THEN Null
  ELSE IF \E i \in 1..Len(commits) : Sha(i) = commitSha
  THEN commits[CHOOSE i \in 1..Len(commits) : Sha(i) = commitSha]
  ELSE Null

\* getLatestCommitSha(repo, fileName): addressed to repo.full_name as well
getLatestCommitSha(repo, failed) ==
  IF failed \/ ~Truthy(Get(repo, "full_name")) \/ commits = <<>> THEN Null
  ELSE Sha(Len(commits))

\* the blob sha of the file in the repository
currentSha == IF commits = <<>> THEN Undefined ELSE BlobSha(commits[Len(commits)])

DoesNotMatch == Str("does not match")     \* GitHub's 409: the sha is stale
RequestFailed == Str("request failed")

\* saveBookToRepository: the sha is the cached one, or the one read from
\* the repository when none is cached (the read caches it); the PUT creates
\* a commit when the sha names the file's current blob (or the file does not
\* exist) and is answered 409 `does not match`, the cached sha dropped,
\* otherwise. `failed` is a failure of the PUT for any other reason; the
\* read of the sha and the PUT are one step.
saveBookToRepository(content, failed) ==
  LET fileSha == IF fileShaCache # Undefined THEN fileShaCache ELSE currentSha
  IN IF failed THEN
       [ok |-> FALSE, error |-> RequestFailed, commitSha |-> Undefined,
        commits |-> commits, fileShaCache |-> fileSha]
     ELSE IF fileSha # currentSha THEN
       [ok |-> FALSE, error |-> DoesNotMatch, commitSha |-> Undefined,
        commits |-> commits, fileShaCache |-> Undefined]
     ELSE
       [ok |-> TRUE, error |-> Undefined, commitSha |-> Sha(Len(commits) + 1),
        commits |-> Append(commits, JSONClone(content)),
        fileShaCache |-> BlobSha(JSONClone(content))]

(***************************************************************************)
(* The sync coordinator. Every action is one store call of                 *)
(* safeSyncWithRepository together with the code up to the next one.       *)
(***************************************************************************)
\* pushToRepository: the outcome of saveBookToRepository as a result object
pushToRepository(content, failed) ==
  LET result == saveBookToRepository(content, failed)
  IN [success |-> result.ok, commitSha |-> result.commitSha,
      error |-> result.error, commits |-> result.commits,
      fileShaCache |-> result.fileShaCache]

\* pushResult.error.includes('does not match')
IsShaConflict(error) == error = DoesNotMatch

\* content.github = { ...content.github, lastSyncCommitSha: commitSha } and
\* the removal of github.lastSyncedContent
StampCommitSha(content, commitSha) ==
  LET github == SetProp(Spread(Get(content, "github")),
                        "lastSyncCommitSha", commitSha)
  IN SetProp(content, "github",
             IF Truthy(Get(github, "lastSyncedContent"))
             THEN DeleteProp(github, "lastSyncedContent")
             ELSE github)

\* catch (error) { return { success: false, error: error.message } }
Caught(message) ==
  [NoReturn EXCEPT !.props = {"success", "error"}, !.error = message]

\* return { success: false, conflicts: [], error: pushResult.error }
PushFailed(error) ==
  [NoReturn EXCEPT !.props = {"success", "conflicts", "error"}, !.error = error]

\* return { success: true, conflicts: [], mergedContent, wasPushed }
Synced(mergedContent, wasPushed) ==
  [NoReturn EXCEPT !.props = {"success", "conflicts", "mergedContent", "wasPushed"},
                   !.success = TRUE, !.mergedContent = mergedContent,
                   !.wasPushed = wasPushed]

\* return { success: false, conflicts, requiresResolution: true, ... }
NeedsResolution(conflicts) ==
  [NoReturn EXCEPT !.props = {"success", "conflicts", "requiresResolution",
                              "remoteContent", "baseContent", "filename"},
                   !.conflicts = conflicts, !.requiresResolution = TRUE]

\* JSON.stringify(mergedContentClean) === JSON.stringify(cleanRemote)
isIdenticalToRemote(content, cleanRemote) ==
  JSONstringify(StripSyncMarkers(JSONClone(content))) = JSONstringify(cleanRemote)

\* safeSyncWithRepository, to the listing of the repository: a retry clears
\* the sha cache first
SyncStart ==
  /\ pc = "sync"
  /\ \E failed \in Failures :
       /\ faults' = IF failed THEN faults + 1 ELSE faults
       /\ pc' = IF Truthy(checkRepositoryForBookFile(failed))
                THEN "download" ELSE "pushDirect"
  /\ fileShaCache' = IF retryCount > 0 THEN Undefined ELSE fileShaCache
  /\ calls' = Append(calls, "checkRepositoryForBookFile")
  /\ remoteBookData' = Null
  /\ UNCHANGED <<chosenResolutions, app, mergeVars, commits, repository,
                 bookData, retryCount,
                 syncResult, thisConflicts, writes>>

\* getRemoteBookContentWithFilename: the download of the file listed
SyncDownload ==
  /\ pc = "download"
  /\ calls' = Append(calls, "downloadBookFromRepository")
  /\ \E failed \in Failures :
       /\ faults' = IF failed THEN faults + 1 ELSE faults
       /\ IF failed
          THEN /\ syncResult' = Caught(Str("Failed to get remote content"))
               /\ pc' = "returned"
               /\ UNCHANGED <<remoteBookData, fileShaCache>>
          ELSE /\ remoteBookData' = commits[Len(commits)]
               /\ fileShaCache' = currentSha
               /\ pc' = "base"
               /\ UNCHANGED syncResult
  /\ UNCHANGED <<chosenResolutions, app, mergeVars, commits, repository,
                 bookData, retryCount,
                 thisConflicts, writes>>

\* the same code without the hasConflicts branch: conflicts are pushed
AfterMerge_PushAnyway(merge, cleanRemote) ==
  /\ mergeResult' = merge
  /\ pc' = IF isIdenticalToRemote(merge.content, cleanRemote)
           THEN "latest" ELSE "push"
  /\ UNCHANGED <<thisConflicts, syncResult>>

\* the code after mergeContent, to the next store call
AfterMerge(merge, cleanRemote) ==
  /\ mergeResult' = merge
  /\ IF merge.hasConflicts
     THEN /\ thisConflicts' = merge.conflicts
          /\ syncResult' = NeedsResolution(merge.conflicts)
          /\ pc' = "returned"
     ELSE /\ pc' = IF isIdenticalToRemote(merge.content, cleanRemote)
                   THEN "latest" ELSE "push"
          /\ UNCHANGED <<thisConflicts, syncResult>>

\* the three cleaned snapshots, merged
MergeSnapshots(base, cleanRemote, cleanLocal) ==
  /\ baseContent' = base
  /\ remoteContent' = cleanRemote
  /\ localContent' = cleanLocal
  /\ IF mergeThrows(base, cleanRemote, cleanLocal)
     THEN /\ mergeResult' = NoResult
          /\ syncResult' = Caught(Str("is not a function"))
          /\ pc' = "returned"
          /\ UNCHANGED thisConflicts
     ELSE AfterMerge(mergeContent(base, cleanRemote, cleanLocal), cleanRemote)

\* the base content: the file at the marker's commit, else the stored
\* lastSyncedContent, else the remote document
chooseBase(fetched) ==
  LET stored == Get(Get(bookData, "github"), "lastSyncedContent")
  IN IF Truthy(fetched) THEN fetched
     ELSE IF Truthy(stored) THEN stored
     ELSE remoteBookData

\* safeSyncWithRepository from the choice of the base to the merge and the
\* comparison with remote
SyncMerge ==
  /\ pc = "base"
  /\ LET marker == Get(Get(bookData, "github"), "lastSyncCommitSha")
     IN \E failed \in Failures :
          /\ failed => Truthy(marker)
          /\ faults' = IF failed THEN faults + 1 ELSE faults
          /\ calls' = IF Truthy(marker)
                      THEN Append(calls, "getFileAtCommit") ELSE calls
          /\ MergeSnapshots(
               StripSyncMarkers(JSONClone(chooseBase(
                 IF Truthy(marker)
                 THEN getFileAtCommit(repository, marker, failed)
                 ELSE Null))),
               StripSyncMarkers(JSONClone(remoteBookData)),
               StripSyncMarkers(JSONClone(bookData)))
  /\ UNCHANGED <<chosenResolutions, app, commits, fileShaCache, repository,
                 bookData, retryCount,
                 remoteBookData, writes>>

\* the code after the push of the merged content
AfterPush(pushResult) ==
  /\ commits' = pushResult.commits
  /\ fileShaCache' = pushResult.fileShaCache
  /\ IF ~pushResult.success
     THEN IF IsShaConflict(pushResult.error) /\ retryCount = 0
          THEN /\ retryCount' = retryCount + 1
               /\ pc' = "sync"
               /\ UNCHANGED syncResult
          ELSE /\ syncResult' = PushFailed(pushResult.error)
               /\ pc' = "returned"
               /\ UNCHANGED retryCount
     ELSE /\ syncResult' = Synced(StampCommitSha(mergeResult.content,
                                                 pushResult.commitSha), TRUE)
          /\ pc' = "returned"
          /\ UNCHANGED retryCount

\* the merged content differs from remote: it is pushed
SyncPush ==
  /\ pc = "push"
  /\ calls' = Append(calls, "saveBookToRepository")
  /\ \E failed \in Failures :
       /\ faults' = IF failed THEN faults + 1 ELSE faults
       /\ AfterPush(pushToRepository(mergeResult.content, failed))
  /\ UNCHANGED <<chosenResolutions, app, mergeVars, repository, bookData,
                 remoteBookData,
                 thisConflicts, writes>>

\* the merged content is identical to remote: nothing is pushed
SyncSkipPush ==
  /\ pc = "latest"
  /\ calls' = Append(calls, "getLatestCommitSha")
  /\ \E failed \in Failures :
       /\ faults' = IF failed THEN faults + 1 ELSE faults
       /\ syncResult' = Synced(StampCommitSha(mergeResult.content,
                                 getLatestCommitSha(repository, failed)), FALSE)
  /\ pc' = "returned"
  /\ UNCHANGED <<chosenResolutions, app, mergeVars, commits, fileShaCache,
                 repository, bookData,
                 retryCount, remoteBookData, thisConflicts, writes>>

\* the code after the push of the local book
AfterPushDirect(pushResult) ==
  /\ commits' = pushResult.commits
  /\ fileShaCache' = pushResult.fileShaCache
  /\ syncResult' = [NoReturn EXCEPT !.props = {"success", "conflicts", "error"},
                                    !.success = pushResult.success,
                                    !.error = pushResult.error]

\* no remote content: the local book is pushed as it is
SyncPushDirect ==
  /\ pc = "pushDirect"
  /\ calls' = Append(calls, "saveBookToRepository")
  /\ \E failed \in Failures :
       /\ faults' = IF failed THEN faults + 1 ELSE faults
       /\ AfterPushDirect(pushToRepository(bookData, failed))
  /\ pc' = "returned"
  /\ UNCHANGED <<chosenResolutions, app, mergeVars, repository, bookData,
                 retryCount, remoteBookData,
                 thisConflicts, writes>>

\* the text a conflict type or a part of it is
RECURSIVE JoinTokens(_)
JoinTokens(tokens) ==
  IF tokens = <<>> THEN "" ELSE tokens[1] \o JoinTokens(Tail(tokens))

\* conflictType.split('.')
RECURSIVE SplitPath(_)
SplitPath(tokens) ==
  IF \E i \in 1..Len(tokens) : tokens[i] = "."
  THEN LET dot == CHOOSE i \in 1..Len(tokens) :
                    tokens[i] = "." /\ \A j \in 1..(i - 1) : tokens[j] # "."
       IN <<JoinTokens(SubSeq(tokens, 1, dot - 1))>> \o
          SplitPath(SubSeq(tokens, dot + 1, Len(tokens)))
  ELSE <<JoinTokens(tokens)>>

\* the walk along the path, objects created where a step finds none, and
\* the assignment of the last step
RECURSIVE SetPath(_, _, _)
SetPath(current, path, val) ==
  IF Len(path) = 1 THEN SetProp(current, path[1], val)
  ELSE SetProp(current, path[1],
               SetPath(IF Truthy(Get(current, path[1]))
                       THEN Get(current, path[1]) ELSE EmptyObj,
                       Tail(path), val))

\* one iteration of resolutions.forEach; conflictIndex counts from 1 here
applyResolution(result, resolution, conflicts) ==
  LET conflict == conflicts[resolution.conflictIndex]
      conflictType == conflict.type
      ending == conflictType[Len(conflictType)]
      arrayName == JoinTokens(SubSeq(conflictType, 1, Len(conflictType) - 1))
      chosenDeleted ==
        \/ resolution.resolution = "remote" /\ conflict.remoteContent = Null
        \/ resolution.resolution = "local" /\ conflict.localContent = Null
  IN IF ending = "_array" THEN
       SetProp(result, arrayName, resolution.resolvedContent)
     ELSE IF ending = "_deleted" THEN
       IF chosenDeleted /\ Truthy(Get(result, arrayName))
       THEN SetProp(result, arrayName,
                    Arr(SelectSeq(Get(result, arrayName)[2],
                                  LAMBDA item :
                                    ~StrictEquals(Get(item, "id"), conflict.id))))
       ELSE result
     ELSE IF \E i \in 1..Len(conflictType) : conflictType[i] = "." THEN
       SetPath(result, SplitPath(conflictType), resolution.resolvedContent)
     ELSE SetProp(result, JoinTokens(conflictType), resolution.resolvedContent)

RECURSIVE applyAll(_, _, _)
applyAll(result, resolutions, conflicts) ==
  IF resolutions = <<>> THEN result
  ELSE applyAll(applyResolution(result, resolutions[1], conflicts),
                Tail(resolutions), conflicts)

applyResolutions(resolutions, content, conflicts) ==
  applyAll(JSONClone(content), resolutions, conflicts)

\* the resolutions the conflict screen hands over: for every conflict the
\* side chosen and that side's content
Resolutions(conflicts, sides) ==
  Tuple([i \in 1..Len(conflicts) |->
           [conflictIndex |-> i,
            resolution |-> sides[i],
            resolvedContent |->
              IF "localContent" \notin DOMAIN conflicts[i] THEN Undefined
              ELSE IF sides[i] = "local" THEN conflicts[i].localContent
              ELSE conflicts[i].remoteContent]])

\* the code after the push of the resolved content
AfterResolvedPush(mergedContent, pushResult) ==
  /\ commits' = pushResult.commits
  /\ fileShaCache' = pushResult.fileShaCache
  /\ syncResult' =
       [NoReturn EXCEPT !.props = {"success", "mergedContent", "error"},
                        !.success = pushResult.success,
                        !.mergedContent =
                          IF pushResult.success
                          THEN StampCommitSha(mergedContent, pushResult.commitSha)
                          ELSE mergedContent,
                        !.error = pushResult.error]

PushResolved(mergedContent, failed) ==
  AfterResolvedPush(mergedContent, pushToRepository(mergedContent, failed))

\* the conflicts of a sync are shown and wait for the user's resolutions
AwaitingResolution ==
  \/ pc = "returned" /\ syncResult.requiresResolution
  \/ pc = "resolved" /\ ~syncResult.success

\* resolveConflictsAndSync, called by the app with the resolutions the user
\* chose and the local book of the pending save; the app keeps the conflicts
\* and the pending save when the call fails, so it can be made again
ResolveConflictsAndSync ==
  /\ AwaitingResolution
  /\ calls' = Append(calls, "saveBookToRepository")
  /\ \E sides \in [1..Len(thisConflicts) -> {"local", "remote"}],
        failed \in Failures :
       /\ faults' = IF failed THEN faults + 1 ELSE faults
       /\ chosenResolutions' = Resolutions(thisConflicts, sides)
       /\ PushResolved(applyResolutions(Resolutions(thisConflicts, sides),
                                        bookData, thisConflicts), failed)
  /\ pc' = "resolved"
  /\ UNCHANGED <<mergeVars, app, repository, bookData, retryCount,
                 remoteBookData, thisConflicts, writes>>

\* the App is loading a book, or has loaded one or failed to: no sync runs
Loading == pc \in {"load", "stamp", "loaded", "loadFailed"}

\* loadBook of the App: the download of the book file; a failure is shown
\* as an error and no book is opened
LoadBookDownload ==
  /\ pc = "load"
  /\ calls' = Append(calls, "downloadBookFromRepository")
  /\ \E failed \in Failures :
       /\ faults' = IF failed THEN faults + 1 ELSE faults
       /\ IF failed
          THEN /\ pc' = "loadFailed"
               /\ UNCHANGED <<bookData, fileShaCache>>
          ELSE /\ bookData' = commits[Len(commits)]
               /\ fileShaCache' = currentSha
               /\ pc' = "stamp"
  /\ UNCHANGED <<mergeVars, chosenResolutions, app, commits, repository,
                 retryCount, remoteBookData, syncResult, thisConflicts, writes>>

\* loadBook: the query of the current marker, made for { full_name:
\* repo.fullName }, and the book set with it as lastSyncCommitSha
LoadBookStamp ==
  /\ pc = "stamp"
  /\ calls' = Append(calls, "getLatestCommitSha")
  /\ \E failed \in Failures :
       /\ faults' = IF failed THEN faults + 1 ELSE faults
       /\ bookData' =
            SetProp(bookData, "github",
                    SetProp(Spread(Get(bookData, "github")), "lastSyncCommitSha",
                            getLatestCommitSha(
                              Obj(<<<<"full_name", Get(repository, "fullName")>>>>),
                              failed)))
  /\ pc' = "loaded"
  /\ UNCHANGED <<mergeVars, chosenResolutions, app, commits, fileShaCache,
                 repository, retryCount, remoteBookData, syncResult,
                 thisConflicts, writes>>

\* another client commits to the repository
RemoteWriter ==
  /\ \/ pc \in {"sync", "download", "base", "push", "latest", "pushDirect",
                 "stamp"}
     \/ AwaitingResolution
  /\ writes < MaxWrites
  /\ writes' = writes + 1
  /\ \E doc \in WriterDocs : commits' = Append(commits, doc)
  /\ UNCHANGED <<chosenResolutions, app, mergeVars, pc, fileShaCache,
                 repository, bookData,
                 retryCount, remoteBookData, calls, syncResult, thisConflicts,
                 faults>>

\* a save of the open book starts, or the App loads the book of a repository
SyncInit ==
  /\ commits \in {<<>>} \cup {<<doc>> : doc \in SyncDocs}
  /\ pc \in IF commits = <<>> THEN {"sync"} ELSE {"sync", "load"}
  /\ bookData \in IF pc = "load" THEN {Undefined} ELSE LocalBooks(commits)
  /\ repository \in Repositories
  /\ fileShaCache \in {Undefined, currentSha}
  /\ retryCount = 0
  /\ remoteBookData = Undefined
  /\ calls = <<>>
  /\ syncResult = NoReturn
  /\ thisConflicts = <<>>
  /\ writes = 0
  /\ faults = 0
  /\ chosenResolutions = <<>>
  /\ baseContent = Undefined
  /\ remoteContent = Undefined
  /\ localContent = Undefined
  /\ mergeResult = NoResult
  /\ app = useStateDefaults

SyncNext ==
  \/ SyncStart
  \/ SyncDownload
  \/ SyncMerge
  \/ SyncPush
  \/ SyncSkipPush
  \/ SyncPushDirect
  \/ ResolveConflictsAndSync
  \/ LoadBookDownload
  \/ LoadBookStamp
  \/ RemoteWriter

SyncSpec == SyncInit /\ [][SyncNext]_vars

(***************************************************************************)
(* The App component and its screens. `app` holds the React state the      *)
(* save handlers read and write (a value that is null or set is modelled   *)
(* by FALSE or TRUE), the isSaving flag of the mounted SceneEditor, and    *)
(* `pending`: the calls of the handlers that await their result, oldest    *)
(* first. A click runs its handler to the await, the return of a call      *)
(* runs the rest of the handler.                                           *)
(***************************************************************************)
MaxPending == 3  \* handler calls awaiting their result at one time

\* the calls that sync the current book
SaveCalls == {"saveScene", "addChapter", "addScene", "handleConflictResolution"}

\* what is rendered
ConflictOverlay == app.conflicts
SceneEditor == ~app.conflicts /\ app.currentScene /\ app.currentBook
BookOverview == ~app.conflicts /\ ~SceneEditor /\ app.currentBook
RepositoryList == ~app.conflicts /\ ~app.currentBook

MayCall == Len(app.pending) < MaxPending

Without(seq, i) == SubSeq(seq, 1, i - 1) \o SubSeq(seq, i + 1, Len(seq))

\* the handler's catch/finally after the awaited call
Settled(i) == [app EXCEPT !.pending = Without(app.pending, i),
                          !.isLoading = FALSE,
                          !.isSaving = FALSE]

\* the requiresResolution branch of saveScene, addChapter and addScene
ShowConflicts(i) == [Settled(i) EXCEPT !.conflicts = TRUE,
                                       !.pendingSaveData = TRUE]

AppUnchanged == UNCHANGED <<mergeVars, pc, syncVars>>

\* the repository button of the list
loadBook ==
  /\ RepositoryList /\ ~app.isLoading /\ MayCall
  /\ app' = [app EXCEPT !.isLoading = TRUE,
                        !.pending = Append(@, "loadBook")]
  /\ AppUnchanged

loadBookReturns ==
  /\ \E i \in 1..Len(app.pending), loaded \in BOOLEAN :
       /\ app.pending[i] = "loadBook"
       /\ app' = IF loaded
                 THEN [Settled(i) EXCEPT !.currentBook = TRUE,
                                         !.currentScene = FALSE]
                 ELSE Settled(i)
  /\ AppUnchanged

\* a scene of the overview; the chapters are hidden while isLoading
selectScene ==
  /\ BookOverview /\ ~app.isLoading
  /\ app' = [app EXCEPT !.currentScene = TRUE]
  /\ AppUnchanged

goBackToOverview ==
  /\ SceneEditor /\ ~app.isSaving
  /\ app' = [app EXCEPT !.currentScene = FALSE]
  /\ AppUnchanged

goBackToBooks ==
  /\ BookOverview
  /\ app' = [app EXCEPT !.currentBook = FALSE, !.currentScene = FALSE]
  /\ AppUnchanged

\* Save in the scene editor: handleSave, then saveScene to its await
saveScene ==
  /\ SceneEditor /\ ~(app.isSaving \/ app.isLoading) /\ MayCall
  /\ app' = [app EXCEPT !.isSaving = TRUE,
                        !.isLoading = TRUE,
                        !.pending = Append(@, "saveScene")]
  /\ AppUnchanged

\* Add Chapter and Add Scene of the overview
addChapter ==
  /\ BookOverview /\ ~app.isLoading /\ MayCall
  /\ app' = [app EXCEPT !.isLoading = TRUE,
                        !.pending = Append(@, "addChapter")]
  /\ AppUnchanged

addScene ==
  /\ BookOverview /\ ~app.isLoading /\ MayCall
  /\ app' = [app EXCEPT !.isLoading = TRUE,
                        !.pending = Append(@, "addScene")]
  /\ AppUnchanged

\* safeSyncWithRepository returns to saveScene, addChapter or addScene:
\* success, conflicts to resolve, or a failure; addScene opens the new scene
\* when it finds it in the returned book
safeSyncReturns ==
  /\ \E i \in 1..Len(app.pending),
        outcome \in {"success", "requiresResolution", "error"},
        found \in BOOLEAN :
       /\ app.pending[i] \in {"saveScene", "addChapter", "addScene"}
       /\ app' =
            IF outcome = "success"
            THEN [Settled(i) EXCEPT
                    !.currentBook = TRUE,
                    !.currentScene =
                      IF app.pending[i] = "addScene" /\ found
                      THEN TRUE ELSE @]
            ELSE IF outcome = "requiresResolution" THEN ShowConflicts(i)
            ELSE Settled(i)
  /\ AppUnchanged

\* Resolve & Save of the conflict overlay, enabled once every conflict has
\* a resolution: handleResolveAll, then handleConflictResolution to its await
handleConflictResolution ==
  /\ ConflictOverlay /\ app.pendingSaveData /\ MayCall
  /\ app' = [app EXCEPT !.isLoading = TRUE,
                        !.pending = Append(@, "handleConflictResolution")]
  /\ AppUnchanged

\* resolveConflictsAndSync returns: on success the book is set and the
\* conflict state cleared, unless the lookup of the current chapter throws
\* because no chapter is open
resolveConflictsAndSyncReturns ==
  /\ \E i \in 1..Len(app.pending), success \in BOOLEAN, threw \in BOOLEAN :
       /\ app.pending[i] = "handleConflictResolution"
       /\ threw => ~app.currentScene
       /\ app' =
            IF success /\ threw
            THEN [Settled(i) EXCEPT !.currentBook = TRUE]
            ELSE IF success
            THEN [Settled(i) EXCEPT !.currentBook = TRUE,
                                    !.conflicts = FALSE,
                                    !.pendingSaveData = FALSE]
            ELSE Settled(i)
  /\ AppUnchanged

handleCancelConflictResolution ==
  /\ ConflictOverlay
  /\ app' = [app EXCEPT !.conflicts = FALSE, !.pendingSaveData = FALSE]
  /\ AppUnchanged

AppInit ==
  /\ app = useStateDefaults
  /\ baseContent = Undefined
  /\ remoteContent = Undefined
  /\ localContent = Undefined
  /\ mergeResult = NoResult
  /\ pc = "app"
  /\ SyncIdle

AppNext ==
  \/ loadBook
  \/ loadBookReturns
  \/ selectScene
  \/ goBackToOverview
  \/ goBackToBooks
  \/ saveScene
  \/ addChapter
  \/ addScene
  \/ safeSyncReturns
  \/ handleConflictResolution
  \/ resolveConflictsAndSyncReturns
  \/ handleCancelConflictResolution

AppSpec == AppInit /\ [][AppNext]_vars

(***************************************************************************)
(* Vocabulary of the properties.                                           *)
(***************************************************************************)
\* the identity collections mergeContent merges, in the order it merges them
IdentityFields ==
  {"scenes", "characters", "chapters", "parts", "locations",
   "backgroundFolders", "frontMatter"}

\* the nested records mergeContent merges
NestedRecords == {"template", "github", "metadata", "collaboration"}

Merged == pc = "merged"

\* doc[fieldName] || [] and doc[fieldName] || {}
ListOf(doc, fieldName) == OrElse(Get(doc, fieldName), EmptyArr)[2]
RecordOf(doc, fieldName) == OrElse(Get(doc, fieldName), EmptyObj)

Range(seq) == {seq[i] : i \in 1..Len(seq)}

\* the keys of any of the three values
KeysOfAny(b, l, r) == Range(Keys(b)) \cup Range(Keys(l)) \cup Range(Keys(r))

\* the number of items of a list that carry an identifier
CountId(items, id) ==
  Cardinality({i \in 1..Len(items) : Get(items[i], "id") = id})

\* the positions of the reported conflicts of a type
ConflictsOfType(type) ==
  {i \in 1..Len(mergeResult.conflicts) : mergeResult.conflicts[i].type = type}

HasPrefix(seq, prefix) ==
  Len(seq) >= Len(prefix) /\ SubSeq(seq, 1, Len(prefix)) = prefix

\* a conflict is reported on a path or below it
ConflictOn(path) ==
  \E i \in 1..Len(mergeResult.conflicts) :
    HasPrefix(mergeResult.conflicts[i].type, path)

\* Structural (deep) equality of documents: key order and keys holding
\* undefined do not matter.
RECURSIVE DeepEqual(_, _)
DeepEqual(a, b) ==
  IF IsObj(a) /\ IsObj(b) THEN
    LET ka == {a[2][i][1] : i \in {j \in 1..Len(a[2]) : a[2][j][2] # Undefined}}
        kb == {b[2][i][1] : i \in {j \in 1..Len(b[2]) : b[2][j][2] # Undefined}}
    IN ka = kb /\ \A k \in ka : DeepEqual(Get(a, k), Get(b, k))
  ELSE IF IsArray(a) /\ IsArray(b) THEN
    Len(a[2]) = Len(b[2]) /\ \A i \in 1..Len(a[2]) : DeepEqual(a[2][i], b[2][i])
  ELSE a = b

\* the four-way rule of a single value under deep equality
FourWay(b, l, r) ==
  IF DeepEqual(l, r) THEN l
  ELSE IF DeepEqual(l, b) THEN r
  ELSE IF DeepEqual(r, b) THEN l
  ELSE r

PairwiseDiffer(b, l, r) ==
  ~DeepEqual(l, r) /\ ~DeepEqual(l, b) /\ ~DeepEqual(r, b)

(***************************************************************************)
(* C1                                                                      *)
(***************************************************************************)
\* title, author and every field outside the known-field set
ScalarFields ==
  {"title", "author"}
  \cup (KeysOfAny(baseContent, localContent, remoteContent) \ handledFields)

\* C1: every top-level scalar field (title, author, any field outside the
\* known-field set) is merged by the four-way rule under deep equality:
\* local = remote gives that value, else local = base gives remote, else
\* remote = base gives local, else remote together with exactly one conflict
\* {type: field, localContent, remoteContent, baseContent}; the first three
\* cases report no conflict on the field.
C1_FourWayRule ==
  Merged =>
    \A f \in ScalarFields :
      LET b == Get(baseContent, f)
          l == Get(localContent, f)
          r == Get(remoteContent, f)
          reported == ConflictsOfType(<<f>>)
      IN /\ DeepEqual(Get(mergeResult.content, f), FourWay(b, l, r))
         /\ IF PairwiseDiffer(b, l, r)
            THEN /\ Cardinality(reported) = 1
                 /\ \A i \in reported :
                      mergeResult.conflicts[i] =
                        [type |-> <<f>>, localContent |-> l,
                         remoteContent |-> r, baseContent |-> b]
            ELSE reported = {}

\* a field outside the known-field set that all three snapshots hold with
\* pairwise different values, merged to remote's with its conflict reported
C1_Witness ==
  /\ Merged
  /\ PairwiseDiffer(Get(baseContent, "subtitle"), Get(localContent, "subtitle"),
                    Get(remoteContent, "subtitle"))
  /\ Get(localContent, "subtitle")[1] = "string"
  /\ Get(mergeResult.content, "subtitle") = Get(remoteContent, "subtitle")
  /\ ConflictsOfType(<<"subtitle">>) # {}
  /\ mergeResult.hasConflicts

AllIds(f) ==
  Range(IdsOf(ListOf(baseContent, f)))
  \cup Range(IdsOf(ListOf(localContent, f)))
  \cup Range(IdsOf(ListOf(remoteContent, f)))

HeldBySide(f) ==
  Range(IdsOf(ListOf(localContent, f)))
  \cup Range(IdsOf(ListOf(remoteContent, f)))

\* C9 as stated: every id of base, local or remote is the id of exactly one
\* item of the merged collection.
C9_EveryIdOnce ==
  Merged =>
    \A f \in IdentityFields :
      \A id \in AllIds(f) : CountId(ListOf(mergeResult.content, f), id) = 1

\* C9 amended: every id that local or remote holds is the id of exactly one
\* item of the merged collection, and an id only base holds (both sides
\* deleted the item) is the id of none.
C9_UnionCompleteness ==
  Merged =>
    \A f \in IdentityFields :
      \A id \in AllIds(f) :
        CountId(ListOf(mergeResult.content, f), id) =
          (IF id \in HeldBySide(f) THEN 1 ELSE 0)

\* both sides deleted chapter c1 of base, local holds c2 as well as remote
C9_Witness ==
  /\ Merged
  /\ Str("c1") \in Range(IdsOf(ListOf(baseContent, "chapters")))
  /\ Str("c1") \notin HeldBySide("chapters")
  /\ Str("c2") \in Range(IdsOf(ListOf(localContent, "chapters")))
  /\ Str("c2") \in Range(IdsOf(ListOf(remoteContent, "chapters")))
  /\ CountId(ListOf(mergeResult.content, "chapters"), Str("c1")) = 0
  /\ CountId(ListOf(mergeResult.content, "chapters"), Str("c2")) = 1

(***************************************************************************)
(* C2                                                                      *)
(***************************************************************************)
AllFields == KeysOfAny(baseContent, localContent, remoteContent)

\* a side changed a top-level field relative to base
Changed(side, f) == ~DeepEqual(Get(side, f), Get(baseContent, f))

\* no top-level field was changed by both sides
DisjointChanges ==
  \A f \in AllFields : ~(Changed(localContent, f) /\ Changed(remoteContent, f))

\* C2: when local and remote changed disjoint parts of the document relative
\* to base, the merged document holds every change of both sides (each field
\* has the value of the side that changed it) and no conflict is reported.
C2_DisjointChangesMerge ==
  (Merged /\ DisjointChanges) =>
    /\ mergeResult.conflicts = <<>>
    /\ ~mergeResult.hasConflicts
    /\ \A f \in AllFields :
         DeepEqual(Get(mergeResult.content, f),
                   IF Changed(localContent, f) THEN Get(localContent, f)
                   ELSE Get(remoteContent, f))

(***************************************************************************)
(* C3, C4                                                                  *)
(***************************************************************************)
\* C3: when local is deep-equal to base, the merged content is deep-equal to
\* remote (sync markers aside) and no conflict is reported, also when remote
\* deleted or added an item of an identity collection or changed a key of a
\* nested record.
C3_NoOpLocal ==
  (Merged /\ DeepEqual(localContent, baseContent)) =>
    /\ DeepEqual(StripSyncMarkers(mergeResult.content),
                 StripSyncMarkers(remoteContent))
    /\ mergeResult.conflicts = <<>>

\* C4: when remote is deep-equal to base, the merged content is deep-equal to
\* local (sync markers aside) and no conflict is reported, also when local
\* deleted an item of an identity collection, deleted a scene nested in a
\* chapter or reordered the items of a collection.
C4_NoOpRemote ==
  (Merged /\ DeepEqual(remoteContent, baseContent)) =>
    /\ DeepEqual(StripSyncMarkers(mergeResult.content),
                 StripSyncMarkers(localContent))
    /\ mergeResult.conflicts = <<>>

(***************************************************************************)
(* C5                                                                      *)
(***************************************************************************)
\* C5: merging a document with itself as base, remote and local gives content
\* deep-equal to the document and no conflict, also for a document that lacks
\* known fields.
C5_Idempotence ==
  (Merged /\ baseContent = remoteContent /\ remoteContent = localContent) =>
    /\ DeepEqual(mergeResult.content, baseContent)
    /\ mergeResult.conflicts = <<>>

(***************************************************************************)
(* C7                                                                      *)
(***************************************************************************)
\* C7: on a key of a known nested record, and on a field (other than a nested
\* collection) of an identity-collection item both local and remote hold, a
\* conflict is reported exactly when the local, remote and base values differ
\* pairwise under deep equality.
C7_ConflictIffPairwiseDifferent ==
  Merged =>
    /\ \A f \in NestedRecords :
         LET b == RecordOf(baseContent, f)
             l == RecordOf(localContent, f)
             r == RecordOf(remoteContent, f)
         IN \A key \in KeysOfAny(b, l, r) :
              ConflictOn(<<f, ".", key>>)
                <=> PairwiseDiffer(Get(b, key), Get(l, key), Get(r, key))
    /\ \A f \in IdentityFields :
         \A id \in Range(IdsOf(ListOf(localContent, f)))
                     \cap Range(IdsOf(ListOf(remoteContent, f))) :
           LET b == OrElse(Find(ListOf(baseContent, f), id), EmptyObj)
               l == Find(ListOf(localContent, f), id)
               r == Find(ListOf(remoteContent, f), id)
           IN \A key \in KeysOfAny(b, l, r) :
                (~IsArray(Get(b, key)) /\ ~IsArray(Get(l, key))
                 /\ ~IsArray(Get(r, key))) =>
                  (ConflictOn(<<f, "_">> \o IdTokens(id) \o <<".", key>>)
                     <=> PairwiseDiffer(Get(b, key), Get(l, key), Get(r, key)))

(***************************************************************************)
(* C8                                                                      *)
(***************************************************************************)
Timestamps == {"modified", "created"}

IsTimestampConflict(c) ==
  \E key \in Timestamps : HasPrefix(c.type, <<"metadata", ".", key>>)

\* C8: when metadata.modified (or metadata.created) differs pairwise between
\* local, remote and base, no conflict is reported for it, the merged value
\* is remote's and, there being no other conflict, the merge has no conflicts
\* at all.
C8_TimestampExclusion ==
  Merged =>
    \A key \in Timestamps :
      LET b == Get(RecordOf(baseContent, "metadata"), key)
          l == Get(RecordOf(localContent, "metadata"), key)
          r == Get(RecordOf(remoteContent, "metadata"), key)
      IN PairwiseDiffer(b, l, r) =>
           /\ ~ConflictOn(<<"metadata", ".", key>>)
           /\ DeepEqual(Get(RecordOf(mergeResult.content, "metadata"), key), r)
           /\ (\A i \in 1..Len(mergeResult.conflicts) :
                 IsTimestampConflict(mergeResult.conflicts[i]))
                => ~mergeResult.hasConflicts

(***************************************************************************)
(* C10                                                                     *)
(***************************************************************************)
Blacklist(doc) == ListOf(doc, "characterDetectionBlacklist")

Exchanged(c) ==
  IF "localContent" \in DOMAIN c
  THEN [c EXCEPT !.localContent = c.remoteContent,
                 !.remoteContent = c.localContent]
  ELSE [c EXCEPT !.contradictions =
          Tuple([i \in 1..Len(c.contradictions) |->
                   [item |-> c.contradictions[i].item,
                    localAction |-> c.contradictions[i].remoteAction,
                    remoteAction |-> c.contradictions[i].localAction]])]

\* the merge of the same base with the two sides exchanged
ExchangedMerge == mergeContent(baseContent, localContent, remoteContent)

NotAList(doc, fieldName) ==
  Get(doc, fieldName) # Undefined /\ ~IsArray(Get(doc, fieldName))

StructuralMismatch(fieldName) ==
  \/ NotAList(baseContent, fieldName)
  \/ NotAList(localContent, fieldName)
  \/ NotAList(remoteContent, fieldName)

\* C20: when a collection field holds a scalar or another non-list value in
\* one of the three snapshots, the merge does not throw: it returns, reports a
\* conflict on that field and sets the merged field to remote's value.
C20_StructuralMismatch ==
  \A i \in 1..Len(collectionFields) :
    (pc # "start" /\ StructuralMismatch(collectionFields[i])) =>
      /\ pc = "merged"
      /\ ConflictOn(<<collectionFields[i]>>)
      /\ DeepEqual(Get(mergeResult.content, collectionFields[i]),
                   Get(remoteContent, collectionFields[i]))

(***************************************************************************)
(* Vocabulary of the properties of the sync coordinator.                   *)
(***************************************************************************)
\* safeSyncWithRepository has returned / resolveConflictsAndSync has returned
Returned == pc = "returned"
Resolved == pc = "resolved"

\* the positions of the calls of a store operation
CallsOf(name) == {i \in 1..Len(calls) : calls[i] = name}

\* the number of times the coordinator asked the store to save
StoreAttempts == Cardinality(CallsOf("saveBookToRepository"))

\* the marker of the commit at the head of the repository
HeadMarker == IF commits = <<>> THEN Null ELSE Sha(Len(commits))

\* the sync marker a document carries
MarkerOf(doc) == Get(Get(doc, "github"), "lastSyncCommitSha")

(***************************************************************************)
(* C12                                                                     *)
(***************************************************************************)
\* the merge of the sync found conflicts
ConflictsFound == Returned /\ mergeResult.conflicts # <<>>

\* C12: when the merge inside safeSyncWithRepository yields conflicts, the
\* call stores nothing (the only store attempt it can have made is the stale
\* one that was rejected before the restart) and returns success = false,
\* requiresResolution = true with exactly those conflicts; afterwards the
\* repository is written only by resolveConflictsAndSync.
C12_ConflictsBlockStore ==
  /\ [](ConflictsFound =>
         /\ ~syncResult.success
         /\ syncResult.requiresResolution
         /\ syncResult.conflicts = mergeResult.conflicts
         /\ thisConflicts = mergeResult.conflicts
         /\ StoreAttempts = retryCount
         /\ calls[Len(calls)] # "saveBookToRepository")
  /\ [][(pc = "base" /\ mergeResult'.conflicts # <<>>) =>
          (commits' = commits /\ pc' = "returned")]_vars
  /\ [][(ConflictsFound /\ commits' # commits /\ writes' = writes) =>
          pc' = "resolved"]_vars

C12_Witness ==
  /\ ConflictsFound
  /\ ConflictsOfType(<<"title">>) # {}
  /\ commits # <<>>

(***************************************************************************)
(* C13                                                                     *)
(***************************************************************************)
\* the coordinator is about to ask the store to save
AboutToStore == pc \in {"push", "pushDirect"}

\* the sha the save would send names a blob that is no longer the file's
StaleSha ==
  (IF fileShaCache # Undefined THEN fileShaCache ELSE currentSha) # currentSha

\* the step is a save the store rejects as stale / for another reason
StaleRejection == AboutToStore /\ calls' # calls /\ faults' = faults /\ StaleSha
OtherRejection == AboutToStore /\ calls' # calls /\ faults' # faults

\* a measure every step of the coordinator decreases
Remaining ==
  (IF retryCount = 0 THEN 6 ELSE 0) +
  (CASE pc = "sync" -> 5
     [] pc = "download" -> 4
     [] pc = "base" -> 3
     [] pc \in {"push", "latest", "pushDirect"} -> 2
     [] pc = "returned" -> 1
     [] OTHER -> 0)

\* C13: one safeSyncWithRepository call makes at most two store attempts; a
\* stale rejection of the first attempt restarts the call exactly once, from
\* the beginning, with the sha cache cleared and the same local document; a
\* rejection of the second attempt returns success = false with the error; a
\* rejection that is not a stale one is never retried; the call terminates
\* (every step of the call but the writer's decreases Remaining, and a step
\* is possible until the call has returned: SyncMerge, whose only guard is
\* pc = "base", or one of the steps that call the store).
C13_BoundedRetry ==
  /\ [](~Resolved => StoreAttempts <= 2 /\ retryCount <= 1)
  /\ [](~(Returned \/ Resolved \/ Loading) =>
         \/ pc = "base"
         \/ ENABLED (SyncStart \/ SyncDownload \/ SyncPush \/ SyncSkipPush \/
                     SyncPushDirect))
  /\ [][(writes' = writes /\ ~Loading /\ ~Resolved) =>
          Remaining' < Remaining]_vars
  /\ [][(StaleRejection /\ StoreAttempts = 0) =>
          /\ pc' = "sync" /\ retryCount' = 1
          /\ bookData' = bookData /\ commits' = commits]_vars
  /\ [][(pc = "sync" /\ retryCount = 1 /\ pc' # pc) =>
          /\ fileShaCache' = Undefined
          /\ calls' = Append(calls, "checkRepositoryForBookFile")]_vars
  /\ [][((StaleRejection \/ OtherRejection) /\ StoreAttempts = 1) =>
          /\ pc' = "returned" /\ ~syncResult'.success
          /\ Truthy(syncResult'.error)]_vars
  /\ [][OtherRejection =>
          /\ pc' = "returned" /\ ~syncResult'.success
          /\ retryCount' = retryCount]_vars

(***************************************************************************)
(* C14                                                                     *)
(***************************************************************************)
\* The local book carries the marker of the remote's current commit: the
\* repository starts with one commit at most, so when no other client has
\* written, Sha(1) is the marker of the remote as the call found it.
LocalAtRemoteMarker ==
  /\ writes = 0
  /\ commits # <<>>
  /\ MarkerOf(bookData) = Sha(1)

\* C14: when the local document carries the remote's current marker,
\* safeSyncWithRepository makes no getFileAtCommit call, pushes the local
\* document and returns success with wasPushed = true.
C14_FastPath ==
  (Returned /\ LocalAtRemoteMarker /\ faults = 0) =>
    /\ CallsOf("getFileAtCommit") = {}
    /\ syncResult.success
    /\ syncResult.wasPushed
    /\ DeepEqual(StripSyncMarkers(commits[Len(commits)]),
                 StripSyncMarkers(bookData))

(***************************************************************************)
(* C15                                                                     *)
(***************************************************************************)
\* the call succeeded by a store: its last store call is the save, whose
\* commit is the head of the repository when the call returns
SucceededByStore ==
  /\ Returned \/ Resolved
  /\ syncResult.success
  /\ calls[Len(calls)] = "saveBookToRepository"

\* C15: on every success path that stores (direct push, merge and push, push
\* after resolution) the result carries a document whose
\* github.lastSyncCommitSha is the marker the store returned for the commit
\* and which has no github.lastSyncedContent.
C15_SuccessIsStamped ==
  SucceededByStore =>
    /\ IsObj(syncResult.mergedContent)
    /\ MarkerOf(syncResult.mergedContent) = HeadMarker
    /\ ~HasKey(Get(syncResult.mergedContent, "github"), "lastSyncedContent")

(***************************************************************************)
(* C16                                                                     *)
(***************************************************************************)
\* the call returned from the merge path after a merge without conflicts
MergedClean ==
  /\ Returned
  /\ IsObj(mergeResult.content)
  /\ mergeResult.conflicts = <<>>

\* the merged document is structurally equal to the remote document, the
\* sync markers stripped from both
EqualToRemote ==
  DeepEqual(StripSyncMarkers(mergeResult.content), remoteContent)

\* C16: when no store call fails and the conflict-free merge is
\* structurally equal to remote, the call stores nothing, returns success
\* with wasPushed = false and a document whose marker is the remote's
\* current marker; and it stores on the merge path only when the merged
\* document differs from remote.
C16_SkipPushWhenIdentical ==
  (MergedClean /\ faults = 0) =>
    /\ EqualToRemote =>
         /\ calls[Len(calls)] = "getLatestCommitSha"
         /\ syncResult.success
         /\ ~syncResult.wasPushed
         /\ MarkerOf(syncResult.mergedContent) = HeadMarker
    /\ calls[Len(calls)] = "saveBookToRepository" => ~EqualToRemote

(***************************************************************************)
(* C17                                                                     *)
(***************************************************************************)
\* the identifiers of the items of a collection of a document
ItemIds(doc, fieldName) ==
  {Get(item, "id") : item \in Range(ListOf(doc, fieldName))}

\* a first sync: the local book carries neither a marker nor a stored
\* snapshot, a remote document exists, and nothing disturbs the call
FirstSync ==
  /\ Returned
  /\ Get(bookData, "github") = EmptyObj
  /\ CallsOf("downloadBookFromRepository") # {}
  /\ writes = 0
  /\ faults = 0

\* C17: on a first sync safeSyncWithRepository fetches no base by marker and
\* merges as against an empty base: it succeeds, the returned document keeps
\* every item that only local or only remote has, scalar fields equal on
\* both sides raise no conflict, and the merged document is pushed (unless
\* it equals remote).
C17_FirstSync ==
  FirstSync =>
    /\ CallsOf("getFileAtCommit") = {}
    /\ syncResult.success
    /\ syncResult.wasPushed \/ EqualToRemote
    /\ \A f \in IdentityFields :
         ItemIds(localContent, f) \cup ItemIds(remoteContent, f)
           \subseteq ItemIds(syncResult.mergedContent, f)
    /\ \A f \in {"title", "author"} :
         Get(localContent, f) = Get(remoteContent, f) => ~ConflictOn(<<f>>)

(***************************************************************************)
(* C18                                                                     *)
(***************************************************************************)
\* No base can be obtained: the local book holds no stored snapshot, and
\* it has no marker, or its marker names no commit, or the request for the
\* file at the marker cannot be answered (no store call fails otherwise).
NoBaseAvailable ==
  /\ ~HasKey(Get(bookData, "github"), "lastSyncedContent")
  /\ \/ ~Truthy(MarkerOf(bookData))
     \/ MarkerOf(bookData) = GoneSha
     \/ ~HasKey(repository, "full_name")
  /\ faults = 0

\* the merge of the call has run
MergeRan == Returned /\ IsObj(localContent)

\* C18: when no base can be obtained, safeSyncWithRepository does not fail
\* in the merge, uses the remote document as base, and never resolves a
\* scalar field on which local and remote differ to local's value without
\* reporting a conflict on it.
C18_FallbackPrefersRemote ==
  (MergeRan /\ NoBaseAvailable) =>
    /\ baseContent = remoteContent
    /\ IsObj(mergeResult.content)
    /\ \A f \in {"title", "author"} :
         (/\ Get(localContent, f) # Get(remoteContent, f)
          /\ Get(mergeResult.content, f) = Get(localContent, f))
           => ConflictOn(<<f>>)

(***************************************************************************)
(* C19                                                                     *)
(***************************************************************************)
\* the step is a store call that fails
StoreCallFails == faults' # faults

\* C19: a store call that fails (listing, download, file at a marker,
\* latest marker, save) makes the running call return a result with
\* success = false and the error, without a store; in particular a failed
\* listing does not lead to the push of the local book as if there were no
\* remote.
C19_FailureIsSurfaced ==
  [][StoreCallFails =>
       /\ pc' \in {"returned", "resolved"}
       /\ ~syncResult'.success
       /\ Truthy(syncResult'.error)
       /\ commits' = commits]_vars

(***************************************************************************)
(* C21                                                                     *)
(***************************************************************************)
\* resolveConflictsAndSync stored the resolved document
ResolvedAndStored == Resolved /\ syncResult.success

\* the document the last store call wrote
PushedDocument == commits[Len(commits)]

\* the positions of the pending conflicts about a deleted item
DeletedConflicts ==
  {i \in 1..Len(thisConflicts) :
     thisConflicts[i].type[Len(thisConflicts[i].type)] = "_deleted"}

CollectionOf(conflict) ==
  JoinTokens(SubSeq(conflict.type, 1, Len(conflict.type) - 1))

\* the content of the side the user chose for a conflict
ChosenContent(i) ==
  IF chosenResolutions[i].resolution = "local"
  THEN thisConflicts[i].localContent ELSE thisConflicts[i].remoteContent

\* C21: after resolveConflictsAndSync stored the resolution of a
\* <name>_deleted conflict, the collection <name> of the pushed document has
\* no item with the conflict's id when the chosen side is the one that
\* deleted it (its content is null), and holds the surviving side's item with
\* that id otherwise, whichever side did the deleting.
C21_DeletedResolution ==
  ResolvedAndStored =>
    \A i \in DeletedConflicts :
      LET items == ListOf(PushedDocument, CollectionOf(thisConflicts[i]))
      IN IF ChosenContent(i) = Null
         THEN CountId(items, thisConflicts[i].id) = 0
         ELSE \E k \in 1..Len(items) :
                /\ Get(items[k], "id") = thisConflicts[i].id
                /\ DeepEqual(items[k], ChosenContent(i))

\* the same, for the conflicts where remote was the deleting side
C21_RemoteDeleted ==
  ResolvedAndStored =>
    \A i \in DeletedConflicts :
      thisConflicts[i].remoteContent = Null =>
        LET items == ListOf(PushedDocument, CollectionOf(thisConflicts[i]))
        IN IF ChosenContent(i) = Null
           THEN CountId(items, thisConflicts[i].id) = 0
           ELSE \E k \in 1..Len(items) :
                  /\ Get(items[k], "id") = thisConflicts[i].id
                  /\ DeepEqual(items[k], ChosenContent(i))

\* a stored resolution of a deletion conflict, by deleting side and choice
C21_Case(deleter, choice) ==
  /\ ResolvedAndStored
  /\ \E i \in DeletedConflicts :
       /\ chosenResolutions[i].resolution = choice
       /\ IF deleter = "local" THEN thisConflicts[i].localContent = Null
          ELSE thisConflicts[i].remoteContent = Null

C21_RemoteDeletedKeep == C21_Case("remote", "local")
C21_RemoteDeletedDrop == C21_Case("remote", "remote")
C21_LocalDeletedKeep == C21_Case("local", "remote")
C21_LocalDeletedDrop == C21_Case("local", "local")

(***************************************************************************)
(* C22                                                                     *)
(***************************************************************************)
\* the safeSyncWithRepository and resolveConflictsAndSync calls in flight
InFlight == {i \in 1..Len(app.pending) : app.pending[i] \in SaveCalls}

\* C22: at most one safeSyncWithRepository or resolveConflictsAndSync call
\* for the current book is in flight at any time: Save, Add Chapter,
\* Add Scene and Resolve & Save are disabled or ignored while one is pending.
C22_SerializedSaves == Cardinality(InFlight) <= 1

\* a call of one of the handlers starts
Starts(kinds) ==
  /\ Len(app'.pending) > Len(app.pending)
  /\ app'.pending[Len(app'.pending)] \in kinds

\* Save, Add Chapter and Add Scene start no call while isLoading is set
C22_SyncWaitsForLoading ==
  [][Starts({"saveScene", "addChapter", "addScene"}) => ~app.isLoading]_vars

\* so does Resolve & Save
C22_ResolveWaitsForLoading ==
  [][Starts({"handleConflictResolution"}) => ~app.isLoading]_vars

\* Resolve & Save is taken while an earlier resolveConflictsAndSync is pending
C22_ResolveTwice ==
  \E i, j \in InFlight :
    /\ i # j
    /\ app.pending[i] = "handleConflictResolution"
    /\ app.pending[j] = "handleConflictResolution"

\* a save starts from the editor while a resolveConflictsAndSync is pending
C22_SaveDuringResolve ==
  \E i, j \in InFlight :
    /\ i < j
    /\ app.pending[i] = "handleConflictResolution"
    /\ app.pending[j] = "saveScene"

(***************************************************************************)
(* C23                                                                     *)
(***************************************************************************)
\* values of the two sync-marker fields of a github record
NoMarkers == <<>>
ShaMarker == <<<<"lastSyncCommitSha", Sha(1)>>>>
BothMarkers ==
  <<<<"lastSyncCommitSha", GoneSha>>,
    <<"lastSyncedContent", bookWithScenes(<<>>)>>>>

\* the markers given to the base, the remote and the local document of the
\* second run, different on the three documents
MarkerVariants ==
  {<<NoMarkers, ShaMarker, BothMarkers>>,
   <<BothMarkers, NoMarkers, ShaMarker>>}

\* the document with the sync-marker fields of its github record replaced
WithMarkers(doc, markers) ==
  IF IsObj(Get(doc, "github"))
  THEN SetProp(doc, "github",
               Assign(Get(StripSyncMarkers(doc), "github"), Obj(markers)))
  ELSE doc

\* what a run of safeSyncWithRepository decides from a merge
OutcomeOf(merge, cleanRemote) ==
  [conflicts |-> merge.conflicts,
   push |-> ~merge.hasConflicts /\
            ~isIdenticalToRemote(merge.content, cleanRemote),
   content |-> merge.content]

\* ... for a base, a remote and a local document
OutcomeFor(base, remote, local) ==
  OutcomeOf(mergeContent(StripSyncMarkers(JSONClone(base)),
                         StripSyncMarkers(JSONClone(remote)),
                         StripSyncMarkers(JSONClone(local))),
            StripSyncMarkers(JSONClone(remote)))

MarkerFields == {"lastSyncCommitSha", "lastSyncedContent"}

\* the sync merges the three documents it holds and does not throw
MergeStep == pc = "base" /\ pc' # "base" /\ mergeResult'.content # Undefined

\* C23: the sync-marker fields of the three inputs do not influence a sync:
\* a run whose base, remote and local document differ from those of this run
\* only in github.lastSyncCommitSha / github.lastSyncedContent reports the
\* same conflicts, takes the same push/no-push decision and pushes the same
\* content, and no conflict is about a marker field.
C23_MarkersAreProvenance ==
  /\ [][MergeStep =>
          \A markers \in MarkerVariants :
            OutcomeFor(WithMarkers(baseContent', markers[1]),
                       WithMarkers(remoteBookData, markers[2]),
                       WithMarkers(bookData, markers[3]))
              = [conflicts |-> mergeResult'.conflicts,
                 push |-> pc' = "push",
                 content |-> mergeResult'.content]]_vars
  /\ [][(pc = "push" /\ commits' # commits /\ writes' = writes) =>
          commits'[Len(commits')] = JSONClone(mergeResult.content)]_vars
  /\ [](\A i \in 1..Len(mergeResult.conflicts) :
          \A k \in 1..Len(mergeResult.conflicts[i].type) :
            mergeResult.conflicts[i].type[k] \notin MarkerFields)

\* a sync of a local book that carries a marker merged with conflicts, and
\* one pushed its merge
C23_Witness ==
  /\ pc = "returned"
  /\ Truthy(MarkerOf(bookData))
  /\ mergeResult.conflicts # <<>>
  /\ syncResult.requiresResolution

C23_WitnessPushed ==
  /\ pc = "returned"
  /\ Truthy(Get(Get(bookData, "github"), "lastSyncedContent"))
  /\ syncResult.success
  /\ syncResult.wasPushed
  /\ CallsOf("downloadBookFromRepository") # {}

(***************************************************************************)
(* C24                                                                     *)
(***************************************************************************)
\* this client stores a document
StoreStep == commits' # commits /\ writes' = writes

\* the version of the file a store replaces (null: the file did not exist)
ReplacedVersion == IF commits = <<>> THEN Null ELSE commits[Len(commits)]

\* C24: every successful store of safeSyncWithRepository and of
\* resolveConflictsAndSync replaces exactly the version of the file that the
\* sync fetched as remote (none, on the direct push); a store after another
\* writer's commit is rejected as stale.
C24_NoLostRemoteUpdate ==
  [][StoreStep => ReplacedVersion = remoteBookData]_vars

\* the same for the push of a merge without conflicts
C24_MergedPushReplacesFetched ==
  [][(StoreStep /\ pc = "push") => ReplacedVersion = remoteBookData]_vars

\* the store of the last call replaced a version the sync never fetched
ReplacedUnfetched ==
  /\ Len(commits) >= 2
  /\ commits[Len(commits) - 1] # remoteBookData
  /\ syncResult.success
  /\ faults = 0

\* ... on the direct push, on the first resolveConflictsAndSync and on one
\* made again after a stale rejection
C24_DirectPushRace ==
  Returned /\ ReplacedUnfetched /\ remoteBookData = Null
C24_ResolveAfterRejection ==
  Resolved /\ ReplacedUnfetched /\ Cardinality(CallsOf("saveBookToRepository")) >= 2
C24_FirstResolve ==
  Resolved /\ ReplacedUnfetched /\ Cardinality(CallsOf("saveBookToRepository")) = 1
C24_MergedPush ==
  Returned /\ syncResult.success /\ syncResult.wasPushed /\ writes > 0
    /\ remoteBookData # Null

(***************************************************************************)
(* C25                                                                     *)
(***************************************************************************)
\* the top-level fields of the merge that no pending conflict is about
Unconflicted ==
  {f \in Range(Keys(mergeResult.content)) :
     /\ f # "github"
     /\ \A i \in 1..Len(thisConflicts) : thisConflicts[i].type[1] # f}

C25_RemoteChangeAccepted ==
  /\ ResolvedAndStored
  /\ "title" \in Unconflicted
  /\ Get(mergeResult.content, "title") = Get(remoteContent, "title")
  /\ Get(localContent, "title") # Get(remoteContent, "title")
  /\ Get(localContent, "title") = Get(baseContent, "title")

\* the same where the local book has every change of the merge: only the
\* conflicted field differs between remote and local
C25_LocalHasTheMerge ==
  (ResolvedAndStored /\ IsObj(mergeResult.content) /\
   \A f \in Unconflicted :
     DeepEqual(Get(localContent, f), Get(mergeResult.content, f))) =>
    \A f \in Unconflicted :
      DeepEqual(Get(PushedDocument, f), Get(mergeResult.content, f))

(***************************************************************************)
(* C26                                                                     *)
(***************************************************************************)
MergedClean26 == Merged /\ mergeResult.conflicts = <<>>

IdSet(items) == {Get(items[i], "id") : i \in 1..Len(items)} \ {Undefined}
HasId(items, id) == \E i \in 1..Len(items) : Get(items[i], "id") = id
ItemWith(items, id) ==
  items[CHOOSE i \in 1..Len(items) : Get(items[i], "id") = id]

\* a list of records, or no value
IsItemList(v) ==
  \/ v = Undefined
  \/ IsArray(v) /\ \A i \in 1..Len(v[2]) : IsObj(v[2][i])

\* every key of a record that local changed relative to base holds local's
\* value in the merge
FieldsKept(b, l, m, skip) ==
  \A k \in (Range(Keys(b)) \cup Range(Keys(l))) \ skip :
    ~DeepEqual(Get(l, k), Get(b, k)) => DeepEqual(Get(m, k), Get(l, k))

\* every item that local removed is absent from the merge, every item local
\* added or changed is there with the fields local set
ItemsKept(bItems, lItems, mItems, skip) ==
  \A id \in IdSet(bItems) \cup IdSet(lItems) :
    IF ~HasId(lItems, id) THEN ~HasId(mItems, id)
    ELSE IF ~HasId(bItems, id)
    THEN /\ HasId(mItems, id)
         /\ FieldsKept(EmptyObj, ItemWith(lItems, id), ItemWith(mItems, id),
                       skip)
    ELSE ~DeepEqual(ItemWith(lItems, id), ItemWith(bItems, id)) =>
           /\ HasId(mItems, id)
           /\ FieldsKept(ItemWith(bItems, id), ItemWith(lItems, id),
                         ItemWith(mItems, id), skip)

\* the same for the scenes of the chapters both base and local hold
NestedItemsKept(bItems, lItems, mItems) ==
  \A id \in IdSet(bItems) \cap IdSet(lItems) :
    (/\ HasId(mItems, id)
     /\ IsItemList(Get(ItemWith(bItems, id), "scenes"))
     /\ IsItemList(Get(ItemWith(lItems, id), "scenes"))
     /\ IsItemList(Get(ItemWith(mItems, id), "scenes"))) =>
      ItemsKept(ListOf(ItemWith(bItems, id), "scenes"),
                ListOf(ItemWith(lItems, id), "scenes"),
                ListOf(ItemWith(mItems, id), "scenes"), {})

ItemListsIn(f) ==
  /\ IsItemList(Get(baseContent, f))
  /\ IsItemList(Get(localContent, f))
  /\ IsItemList(Get(mergeResult.content, f))

\* scalar fields and the keys of the nested records
C26_FieldsKept ==
  MergedClean26 =>
    /\ \A f \in AllFields \ (IdentityFields \cup NestedRecords
                              \cup {"characterDetectionBlacklist"}) :
         Changed(localContent, f) =>
           DeepEqual(Get(mergeResult.content, f), Get(localContent, f))
    /\ \A r \in NestedRecords :
         (IsObj(RecordOf(baseContent, r)) /\ IsObj(RecordOf(localContent, r)))
           => FieldsKept(RecordOf(baseContent, r), RecordOf(localContent, r),
                         RecordOf(mergeResult.content, r), {})

\* items of the identity collections and their fields
C26_ItemsKept ==
  MergedClean26 =>
    \A f \in IdentityFields :
      ItemListsIn(f) =>
        ItemsKept(ListOf(baseContent, f), ListOf(localContent, f),
                  ListOf(mergeResult.content, f), {"scenes"})

\* scenes of chapters
C26_NestedItemsKept ==
  MergedClean26 =>
    \A f \in IdentityFields :
      ItemListsIn(f) =>
        NestedItemsKept(ListOf(baseContent, f), ListOf(localContent, f),
                        ListOf(mergeResult.content, f))

\* C26: when mergeContent reports no conflicts, every field, item and nested
\* item that local changed, added or removed relative to base is in the
\* merged content as local has it: remote overrides a local edit only
\* together with a reported conflict.
C26_NoSilentLoss ==
  C26_FieldsKept /\ C26_ItemsKept /\ C26_NestedItemsKept

(***************************************************************************)
(* C27                                                                     *)
(***************************************************************************)
\* the chapter with an identifier in a snapshot (undefined if it has none)
Chapter(doc, id) == Find(ListOf(doc, "chapters"), id)

\* the chapters all three snapshots hold and both sides changed, whose
\* scenes mergeItemFields merges as a nested identity collection
ChaptersMergedBySide ==
  {id \in IdSet(ListOf(localContent, "chapters")) :
     /\ Truthy(Chapter(baseContent, id))
     /\ Truthy(Chapter(remoteContent, id))
     /\ ~DeepEqual(Chapter(localContent, id), Chapter(remoteContent, id))
     /\ ~DeepEqual(Chapter(localContent, id), Chapter(baseContent, id))
     /\ ~DeepEqual(Chapter(remoteContent, id), Chapter(baseContent, id))
     /\ IsArrayWithIds(Get(Chapter(localContent, id), "scenes"),
                       Get(Chapter(remoteContent, id), "scenes"))}

\* what mergeArrayWithIds gives for the three scenes lists of a chapter
TopLevelScenes(id) ==
  mergeArrayWithIds("scenes", Chapter(baseContent, id),
                    Chapter(localContent, id), Chapter(remoteContent, id))

\* a conflict without the part of its type that names the collection
ConflictKey(c, prefixLen) ==
  [path |-> SubSeq(c.type, prefixLen + 1, Len(c.type)),
   id |-> IF "id" \in DOMAIN c THEN c.id ELSE Undefined,
   localContent |-> c.localContent,
   remoteContent |-> c.remoteContent]

ScenesPrefix(id) == <<"chapters", "_">> \o IdTokens(id) \o <<".", "scenes">>

\* the conflicts mergeContent reports about the scenes of a chapter
NestedConflictKeys(id) ==
  {ConflictKey(mergeResult.conflicts[i], Len(ScenesPrefix(id))) :
     i \in {j \in 1..Len(mergeResult.conflicts) :
              HasPrefix(mergeResult.conflicts[j].type, ScenesPrefix(id))}}

\* "scenes" + "_" + id + "." + field at top level is
\* "." + id + "." + field below the chapter; "scenes_deleted" has no
\* counterpart
TopLevelConflictKeys(conflicts) ==
  {ConflictKey([conflicts[i] EXCEPT
                  !.type = IF @[2] = "_" THEN <<"scenes", ".">> \o Tail(Tail(@))
                           ELSE @],
               1) : i \in 1..Len(conflicts)}

\* C27 (items): the scenes of a chapter changed on both sides are merged to
\* the items mergeArrayWithIds gives for the three lists
C27_SameItems ==
  Merged =>
    \A id \in ChaptersMergedBySide :
      DeepEqual(Get(Chapter(mergeResult.content, id), "scenes"),
                TopLevelScenes(id).value)

\* C27: nested identity collections are merged by the rules of the top-level
\* ones: for a chapter changed on both sides the merge of its scenes gives
\* the items and the conflicts mergeArrayWithIds gives for the three lists,
\* a _deleted conflict for a scene of base that only one side still holds
\* and per-field conflicts for a scene both sides changed differently.
C27_NestedLikeTopLevel ==
  Merged =>
    \A id \in ChaptersMergedBySide :
      /\ DeepEqual(Get(Chapter(mergeResult.content, id), "scenes"),
                   TopLevelScenes(id).value)
      /\ NestedConflictKeys(id) =
           TopLevelConflictKeys(TopLevelScenes(id).conflicts)

\* the scenes of a chapter in a snapshot
ScenesOf(doc, id) == ListOf(Chapter(doc, id), "scenes")

\* C27 (field conflicts): a scene of base that both sides changed
\* differently in a field is reported as a conflict on that field
C27_FieldConflicts ==
  Merged =>
    \A id \in ChaptersMergedBySide :
      \A sid \in IdSet(ScenesOf(baseContent, id)) :
        (/\ HasId(ScenesOf(localContent, id), sid)
         /\ HasId(ScenesOf(remoteContent, id), sid)
         /\ PairwiseDiffer(
              Get(ItemWith(ScenesOf(baseContent, id), sid), "content"),
              Get(ItemWith(ScenesOf(localContent, id), sid), "content"),
              Get(ItemWith(ScenesOf(remoteContent, id), sid), "content")))
          => ConflictOn(ScenesPrefix(id) \o <<".">> \o IdTokens(sid)
                          \o <<".", "content">>)

\* a chapter changed on both sides with a scene of base that one side
\* removed, and one with a scene both sides changed differently
C27_SceneDeletedOnOneSide ==
  /\ Merged
  /\ \E id \in ChaptersMergedBySide :
       \E sid \in IdSet(ScenesOf(baseContent, id)) :
         HasId(ScenesOf(localContent, id), sid)
           # HasId(ScenesOf(remoteContent, id), sid)

C27_SceneChangedOnBothSides ==
  /\ Merged
  /\ \E id \in ChaptersMergedBySide :
       \E sid \in IdSet(ScenesOf(baseContent, id)) :
         /\ HasId(ScenesOf(localContent, id), sid)
         /\ HasId(ScenesOf(remoteContent, id), sid)
         /\ PairwiseDiffer(
              Get(ItemWith(ScenesOf(baseContent, id), sid), "content"),
              Get(ItemWith(ScenesOf(localContent, id), sid), "content"),
              Get(ItemWith(ScenesOf(remoteContent, id), sid), "content"))

(***************************************************************************)
(* C28                                                                     *)
(***************************************************************************)
\* the reported conflicts on a field of an item of an identity collection:
\* type = collection + "_" + id + "." + field
ItemFieldConflicts ==
  {i \in 1..Len(mergeResult.conflicts) :
     LET type == mergeResult.conflicts[i].type
     IN /\ Len(type) = 5
        /\ type[1] \in IdentityFields
        /\ type[2] = "_"
        /\ type[4] = "."}

\* every conflict resolved to one side
AllTo(side) == [i \in 1..Len(mergeResult.conflicts) |-> side]

\* the default merge with the conflicts resolved to a side
ResolvedTo(side) ==
  applyResolutions(Resolutions(mergeResult.conflicts, AllTo(side)),
                   mergeResult.content, mergeResult.conflicts)

ItemFieldSet(doc, conflict, v) ==
  LET items == ListOf(doc, conflict.type[1])
  IN \E k \in 1..Len(items) :
       /\ IdTokens(Get(items[k], "id")) = <<conflict.type[3]>>
       /\ DeepEqual(Get(items[k], conflict.type[5]), v)

\* C28: for every conflict mergeContent reports on a field of an item of an
\* identity collection, applyResolutions with resolvedContent v returns a
\* document whose item with that id in that collection has the field set to
\* v, and that has no top-level key the document it was applied to lacks.
C28_ItemFieldRoundTrip ==
  (Merged /\ ItemFieldConflicts # {}) =>
    \A side \in {"local", "remote"} :
      /\ \A i \in ItemFieldConflicts :
           ItemFieldSet(ResolvedTo(side), mergeResult.conflicts[i],
                        IF side = "local"
                        THEN mergeResult.conflicts[i].localContent
                        ELSE mergeResult.conflicts[i].remoteContent)
      /\ Range(Keys(ResolvedTo(side))) \subseteq
           Range(Keys(mergeResult.content))

\* the two halves of the claim
C28_FieldIsSet ==
  (Merged /\ ItemFieldConflicts # {}) =>
    \A side \in {"local", "remote"} :
      \A i \in ItemFieldConflicts :
        ItemFieldSet(ResolvedTo(side), mergeResult.conflicts[i],
                     IF side = "local"
                     THEN mergeResult.conflicts[i].localContent
                     ELSE mergeResult.conflicts[i].remoteContent)

C28_NoNewKey ==
  (Merged /\ ItemFieldConflicts # {}) =>
    \A side \in {"local", "remote"} :
      Range(Keys(ResolvedTo(side))) \subseteq Range(Keys(mergeResult.content))

\* the round trip for the conflicts on a scalar field of the document
C28_ScalarRoundTrip ==
  Merged =>
    \A side \in {"local", "remote"} :
      \A i \in 1..Len(mergeResult.conflicts) :
        (Len(mergeResult.conflicts[i].type) = 1 /\ ItemFieldConflicts = {}) =>
          DeepEqual(Get(ResolvedTo(side), mergeResult.conflicts[i].type[1]),
                    IF side = "local"
                    THEN mergeResult.conflicts[i].localContent
                    ELSE mergeResult.conflicts[i].remoteContent)

\* a merge that reports a conflict on a field of an item
C28_ItemFieldConflict == Merged /\ ItemFieldConflicts # {}

(***************************************************************************)
(* C29                                                                     *)
(***************************************************************************)
\* the repository holds, at the marker a document is stamped with, that
\* document without its sync-marker fields
MarkerAgrees(doc) ==
  Truthy(MarkerOf(doc)) =>
    \E i \in 1..Len(commits) :
      /\ Sha(i) = MarkerOf(doc)
      /\ DeepEqual(StripSyncMarkers(JSONClone(commits[i])),
                   StripSyncMarkers(JSONClone(doc)))

Loaded == pc = "loaded"

\* C29: the document loadBook opens and the document a successful
\* safeSyncWithRepository returns carry a marker at which the repository
\* holds that very document (sync markers aside), also when another writer
\* commits between the fetch of the document and the query of the marker.
C29_MarkerContentAgreement ==
  /\ Loaded => MarkerAgrees(bookData)
  /\ (Returned /\ syncResult.success) => MarkerAgrees(syncResult.mergedContent)

\* the same for the syncs that stored a document
C29_StoredMarkerAgrees ==
  (Returned /\ syncResult.success /\ syncResult.wasPushed) =>
    MarkerAgrees(syncResult.mergedContent)

\* the same for the syncs that found the merge identical to remote
C29_IdenticalMarkerAgrees ==
  (Returned /\ syncResult.success /\ ~syncResult.wasPushed) =>
    MarkerAgrees(syncResult.mergedContent)

\* the same for loadBook
C29_LoadedMarkerAgrees == Loaded => MarkerAgrees(bookData)

\* a writer committed between the fetch and the query of the marker
C29_WriterDuringLoad ==
  Loaded /\ writes > 0 /\ faults = 0 /\ ~MarkerAgrees(bookData)
C29_WriterDuringSkip ==
  /\ Returned /\ syncResult.success /\ ~syncResult.wasPushed
  /\ writes > 0 /\ faults = 0 /\ ~MarkerAgrees(syncResult.mergedContent)
C29_StampedByStore ==
  /\ Returned /\ syncResult.success /\ syncResult.wasPushed
  /\ writes > 0 /\ Truthy(MarkerOf(syncResult.mergedContent))

(***************************************************************************)
(* C30                                                                     *)
(***************************************************************************)
\* the commits of the repository the local book's marker names
CommitsAtMarker == {i \in 1..Len(commits) : Sha(i) = MarkerOf(bookData)}

\* the local book carries a marker that is not the remote's current one, and
\* the repository holds the book file at it
StaleMarkerInStore ==
  /\ Truthy(MarkerOf(bookData))
  /\ MarkerOf(bookData) # HeadMarker
  /\ CommitsAtMarker # {}

\* the base of the merge is the document stored at the local book's marker
BaseIsAtMarker(base) ==
  \E i \in CommitsAtMarker : base = StripSyncMarkers(JSONClone(commits[i]))

\* the base of the merge is the remote document
BaseIsRemote(base) == base = StripSyncMarkers(JSONClone(remoteBookData))

\* C30: when the local document carries a marker m other than the remote's
\* current marker and the repository holds the book file at m, the merge of
\* safeSyncWithRepository takes the document stored at m as its base, read
\* from the repository the remote document was fetched from; remote is the
\* base only when the store has no document at m.
C30_BaseFromStoredMarker ==
  [][(MergeStep /\ faults' = faults /\ StaleMarkerInStore)
       => BaseIsAtMarker(baseContent')]_vars

\* the same for a repository object that has the property full_name
C30_BaseFromStoredMarkerByFullName ==
  [][(MergeStep /\ faults' = faults /\ StaleMarkerInStore
        /\ HasKey(repository, "full_name"))
       => BaseIsAtMarker(baseContent')]_vars

\* with a marker and no stored snapshot, remote is the base only if the
\* request for the document at the marker gave none
C30_FallbackOnlyWithoutDocument ==
  [][(MergeStep /\ faults' = faults /\ Truthy(MarkerOf(bookData))
        /\ HasKey(repository, "full_name")
        /\ BaseIsRemote(baseContent') /\ ~BaseIsAtMarker(baseContent'))
       => CommitsAtMarker = {}]_vars

\* a merge has run against the document at a stale marker, which is not the
\* remote document
C30_MergedAgainstMarker ==
  /\ mergeResult.content # Undefined
  /\ faults = 0 /\ retryCount = 0
  /\ StaleMarkerInStore
  /\ HasKey(repository, "full_name")
  /\ BaseIsAtMarker(baseContent)
  /\ ~BaseIsRemote(baseContent)

\* a merge has run against remote although the repository holds another
\* document at the local book's marker
C30_MergedAgainstRemote ==
  /\ mergeResult.content # Undefined
  /\ faults = 0 /\ retryCount = 0
  /\ StaleMarkerInStore
  /\ ~HasKey(repository, "full_name")
  /\ BaseIsRemote(baseContent)
  /\ ~BaseIsAtMarker(baseContent)

====
